---- MODULE Spec2Model ----
(***************************************************************************)
(* WordWebNav (word-web-nav): a model of the Word-HTML repair engine       *)
(* (fix_word_html.py), of the body fragment, the header bar and the        *)
(* table of contents with its hyperlink styling                            *)
(* (construct_html_sections.py), of the two functions run one after the    *)
(* other on one page, and of the batch driver                              *)
(* (create_web_page_for_all_yml_files.py).                                 *)
(*                                                                         *)
(* A style attribute is a sequence of symbols.  ";" and "NL" (a newline)   *)
(* are the two characters the regular expressions of the code treat as     *)
(* boundaries; every other symbol stands for a run of characters holding   *)
(* neither, e.g. "W" for color:white and "Tin" for text-indent:1.5in.      *)
(* Two such symbols next to each other are one longer run of characters.   *)
(***************************************************************************)
EXTENDS Integers, Sequences, FiniteSets, TLC

\* ------------------------------------------------------------------------
\* Bounds of the model
\* ------------------------------------------------------------------------

\* paragraphs of one document
MaxParas == 2

\* files of one batch run
MaxFiles == 2

\* symbols of a span's style in the white-text specification
MaxStyleLen == 5

\* nodes of the body in the table-of-contents specification
MaxBody == 4

\* children of <body> in the specification of construct_html_sections()
MaxKids == 2

\* sections of the header bar
MaxSections == 2

\* ------------------------------------------------------------------------
\* Style strings and the regular expressions applied to them
\* ------------------------------------------------------------------------

\* the value of a missing attribute
NoStyle == <<"absent">>

\* text-indent declarations "text-indent:<number><letters>" and their units
TextIndentUnit == [Tin |-> "in", Tfix |-> "in", Tcm |-> "cm", Tpx |-> "px"]

TextIndentDecls == DOMAIN TextIndentUnit

\* symbols that contain the characters "text-indent:" ("Tbad" is
\* text-indent:5%, which has no letter unit)
TextIndentSymbols == TextIndentDecls \cup {"Tbad"}

\* "^" under re.M: the start of the string or just after a newline
AtLineStart(s, i) == i = 1 \/ (i - 1 <= Len(s) /\ s[i - 1] = "NL")

\* "$" under re.M: the end of the string or just before a newline
AtLineEnd(s, i) == i = Len(s) + 1 \/ (i <= Len(s) /\ s[i] = "NL")

\* One attempt of (?:^|;)TOKEN(?:$|;) at position i, TOKEN being any symbol
\* of toks: the position of the token and the position after the match, or
\* tok = 0 when the pattern does not match at i.
MatchAt(s, toks, i) ==
    LET t == IF AtLineStart(s, i) /\ i <= Len(s) /\ s[i] \in toks THEN i
             ELSE IF i + 1 <= Len(s) /\ s[i] = ";" /\ s[i + 1] \in toks THEN i + 1
             ELSE 0
        e == t + 1
    IN  IF t = 0 THEN [tok |-> 0, end |-> 0]
        ELSE IF AtLineEnd(s, e) THEN [tok |-> t, end |-> e]
        ELSE IF s[e] = ";" THEN [tok |-> t, end |-> e + 1]
        ELSE [tok |-> 0, end |-> 0]

RECURSIVE SearchFrom(_, _, _)
\* re.search from position i: the leftmost match, or tok = 0
SearchFrom(s, toks, i) ==
    IF i > Len(s) THEN [tok |-> 0, end |-> 0, at |-> 0]
    ELSE LET m == MatchAt(s, toks, i)
         IN  IF m.tok # 0 THEN [tok |-> m.tok, end |-> m.end, at |-> i]
             ELSE SearchFrom(s, toks, i + 1)

\* re.search(regex, style, re.M) != None
Search(s, toks) == SearchFrom(s, toks, 1).tok # 0

RECURSIVE SubnFrom(_, _, _, _)
\* re.subn from position i.  A non-empty repl is put in the token's place and
\* the groups around the token are written back ("\1-.25in\3"); an empty repl
\* replaces the whole match, boundaries included, by the empty string.
SubnFrom(s, toks, i, repl) ==
    LET m == SearchFrom(s, toks, i)
    IN  IF m.tok = 0 THEN [out |-> SubSeq(s, i, Len(s)), n |-> 0]
        ELSE LET rest == SubnFrom(s, toks, m.end, repl)
                 mid  == IF repl = "" THEN << >>
                         ELSE SubSeq(s, m.at, m.tok - 1) \o <<repl>>
                              \o SubSeq(s, m.tok + 1, m.end - 1)
             IN  [out |-> SubSeq(s, i, m.at - 1) \o mid \o rest.out,
                  n   |-> rest.n + 1]

\* new_string, substitution_count = re.subn(regex, substitution, s, 0, re.M)
Subn(s, toks, repl) == SubnFrom(s, toks, 1, repl)

\* ------------------------------------------------------------------------
\* Paragraphs of the body
\*
\* A paragraph is its class (list: a class of the Word list styles; other;
\* none), its style attribute, its elements els (tag, style, parent; parent 0
\* is the paragraph) and its strings strs in document order (text, parent).
\* Texts: "dot", "sq", "o" the three bullet characters, "num" a list-item
\* symbol such as "1.", "nbsp" one or more &nbsp;, "text" anything else, and
\* the three raw markers.
\* ------------------------------------------------------------------------

FIX_KEY_SOLID_DOT_BULLET == "solid_dot_bullet"

FIX_KEY_SOLID_SQUARE_BULLET == "solid_square_bullet"

FIX_KEY_LETTER_O_BULLET == "letter_o_bullet"

FIX_KEY_SIX_NBSPS == "six_nbsps"

\* the keys of html_entity_encodings_g, in the dictionary's order
Keys == <<FIX_KEY_SOLID_DOT_BULLET, FIX_KEY_SOLID_SQUARE_BULLET,
          FIX_KEY_LETTER_O_BULLET, FIX_KEY_SIX_NBSPS>>

KeySet == {Keys[i] : i \in DOMAIN Keys}

\* html_entity_encodings_g[key][FIX_KEY_ENCODE]: the text of the script
\* element a fix inserts ("" for the letter-o descriptor)
Encode == [solid_dot_bullet    |-> "raw_dot",
           solid_square_bullet |-> "raw_sq",
           letter_o_bullet     |-> "",
           six_nbsps           |-> "raw_six"]

\* html_entity_encodings_g as the module's import leaves it
html_entity_encodings_g == [k \in KeySet |-> 0]

Span(style, par) == [tag |-> "span", style |-> style, par |-> par]

Str(txt, par) == [txt |-> txt, par |-> par]

\* <span style=...>SYMBOL<span style=X>&nbsp;</span></span>text
BulletItemStyled(style, sym) ==
    [els  |-> <<Span(style, 0), Span(<<"X">>, 1)>>,
     strs |-> <<Str(sym, 1), Str("nbsp", 2), Str("text", 0)>>]

BulletItem(font, sym) == BulletItemStyled(<<font>>, sym)

\* <span style=X>&nbsp;</span>1.<span style=X>&nbsp;</span>text
OrderedItemPre ==
    [els  |-> <<Span(<<"X">>, 0), Span(<<"X">>, 0)>>,
     strs |-> <<Str("nbsp", 1), Str("num", 0), Str("nbsp", 2), Str("text", 0)>>]

\* 1.<span style=X>&nbsp;</span>text
OrderedItem ==
    [els  |-> <<Span(<<"X">>, 0)>>,
     strs |-> <<Str("num", 0), Str("nbsp", 1), Str("text", 0)>>]

\* 1.<b><span style=X>&nbsp;</span></b>text
OrderedItemSplit ==
    [els  |-> <<[tag |-> "b", style |-> NoStyle, par |-> 0], Span(<<"X">>, 1)>>,
     strs |-> <<Str("num", 0), Str("nbsp", 2), Str("text", 0)>>]

\* <span style=X>&nbsp;</span>1.
OrderedItemShort ==
    [els  |-> <<Span(<<"X">>, 0)>>,
     strs |-> <<Str("nbsp", 1), Str("num", 0)>>]

\* text
PlainText == [els |-> << >>, strs |-> <<Str("text", 0)>>]

\* <span style=...>text</span>text
WithSpan(style) ==
    [els  |-> <<Span(style, 0)>>,
     strs |-> <<Str("text", 1), Str("text", 0)>>]

\* <script type="word_web_page_nav">&nbsp;...&nbsp;</script>text, already in
\* the input
WithMarker ==
    [els  |-> <<[tag |-> "script", style |-> NoStyle, par |-> 0]>>,
     strs |-> <<Str("raw_six", 1), Str("text", 0)>>]

Para(cls, style, c) == [cls |-> cls, style |-> style, els |-> c.els, strs |-> c.strs]

\* len(element.contents)
NumContents(p, e) ==
    Cardinality({i \in DOMAIN p.strs : p.strs[i].par = e})
    + Cardinality({j \in DOMAIN p.els : p.els[j].par = e})

\* isinstance(element, Tag) and element.name == "span" and "style" in attrs
IsStyledSpan(p, e) ==
    e \in DOMAIN p.els /\ p.els[e].tag = "span" /\ p.els[e].style # NoStyle

test_if_span_with_only_spaces(p, e) ==
    /\ IsStyledSpan(p, e)
    /\ NumContents(p, e) = 1
    /\ \E i \in DOMAIN p.strs : p.strs[i].par = e /\ p.strs[i].txt = "nbsp"

\* node.replace_with(BeautifulSoup(encode, "html.parser")): string i becomes
\* the text of a new script element that takes the string's place
ReplaceWithRaw(p, i, raw) ==
    [p EXCEPT !.els  = Append(@, [tag |-> "script", style |-> NoStyle,
                                  par |-> p.strs[i].par]),
              !.strs = [@ EXCEPT ![i] = Str(raw, Len(p.els) + 1)]]

RECURSIVE DropStrs(_, _)
DropStrs(strs, e) ==
    IF strs = << >> THEN << >>
    ELSE IF Head(strs).par = e THEN DropStrs(Tail(strs), e)
    ELSE <<Head(strs)>> \o DropStrs(Tail(strs), e)

\* element.decompose(): the element and its contents leave the tree
Decompose(p, e) ==
    [p EXCEPT !.els  = [@ EXCEPT ![e] = [tag |-> "destroyed", style |-> NoStyle,
                                         par |-> -1]],
              !.strs = DropStrs(@, e)]

\* ------------------------------------------------------------------------
\* Inputs
\* ------------------------------------------------------------------------

ListStyle == <<"X", ";", "Tin">>

\* the paragraphs a document of the single-conversion specification is made of
RichParas ==
    { Para("list",  ListStyle,                       BulletItem("Fsym", "dot")),
      Para("list",  ListStyle,                       BulletItem("Fwing", "sq")),
      Para("list",  ListStyle,                       BulletItem("Fcour", "o")),
      Para("list",  ListStyle,                       BulletItem("Fwing", "dot")),
      Para("list",  ListStyle,                       OrderedItemPre),
      Para("list",  <<"Tcm">>,                       OrderedItem),
      Para("list",  <<"Tpx", ";", "X">>,             OrderedItemPre),
      Para("list",  <<"Tcm", ";", "X", ";", "Tin">>, OrderedItemPre),
      Para("list",  <<"Tbad">>,                      OrderedItem),
      Para("list",  <<"Tin", ";", "Tcm">>,           OrderedItem),
      Para("list",  ListStyle,                       OrderedItemSplit),
      Para("list",  ListStyle,                       OrderedItemShort),
      Para("list",  ListStyle,                       PlainText),
      Para("other", ListStyle,                       BulletItem("Fsym", "dot")),
      Para("list",  <<"X">>,                         OrderedItem),
      Para("none",  NoStyle,                         OrderedItemPre),
      Para("other", NoStyle,                         WithSpan(<<"W">>)),
      Para("other", NoStyle,                         WithSpan(<<"X", ";", "W">>)),
      Para("other", NoStyle,                         WithMarker) }

\* the paragraphs of the documents converted under every white-text policy
WhiteParas ==
    { Para("other", NoStyle,   WithSpan(<<"W">>)),
      Para("other", NoStyle,   WithSpan(<<"W", ";", "X">>)),
      Para("list",  ListStyle, BulletItemStyled(<<"Fsym", ";", "W">>, "dot")),
      Para("list",  <<"Tcm">>, OrderedItemPre),
      Para("other", NoStyle,   WithSpan(<<"W", "NL", "W">>)) }

\* the paragraphs a document of the batch specification is made of
BatchParas ==
    { Para("list",  ListStyle, BulletItem("Fsym", "dot")),
      Para("list",  ListStyle, BulletItem("Fcour", "o")),
      Para("list",  ListStyle, OrderedItemPre),
      Para("other", NoStyle,   WithSpan(<<"W", "NL", "W">>)),
      Para("other", NoStyle,   PlainText) }

\* the documents of at most MaxParas paragraphs
Docs(P) == UNION {[1..n -> P] : n \in 0..MaxParas}

\* the spans of the body that are under no paragraph: their styles
LooseSpans == { << >>, << <<"W">> >>, << <<"W", ";", "X">> >> }

\* loaded_parms[word_html_edits][white_colored_text], or "absent"
YML_DO_NOT_REMOVE == "doNotRemove"

YML_REMOVE_IN_PARAGRAPHS == "removeInParagraphs"

YML_REMOVE_ALL == "removeAll"

WhiteTextConfigs == {"absent", YML_DO_NOT_REMOVE, YML_REMOVE_IN_PARAGRAPHS, YML_REMOVE_ALL}

\* ------------------------------------------------------------------------
\* State
\* ------------------------------------------------------------------------

VARIABLES
    numEncoded,      \* html_entity_encodings_g[key][FIX_KEY_NUMBER_ENCODED]
    paras,           \* body_inner_html: its paragraphs
    loose,           \* body_inner_html: the styles of its spans under no paragraph
    orig,            \* history: the body as fix_word_html received it
    startEncoded,    \* history: numEncoded when the conversion started
    config,          \* the white_colored_text key of loaded_parms
    pc,              \* the position of the program
    word_list_item_list,      \* the candidate pool: indices into paras
    passNo,          \* which call of fix_unordered_list_items is running
    idx,             \* the index of the running loop
    list_elements_to_remove,
    symbol_replace_count,
    bullets_fixed_count,
    unrecognized_indentation_units_list,
    num_text_indent_unrecognized,
    num_list_items_fixed,
    num_warning_messages,
    warnIn,          \* history: num_warning_messages as passed in
    messages,        \* the WARNING messages printed by this conversion
    spans,           \* the spans found by the white-text pass
    num_spans_under_paragraph,
    num_spans_not_under_paragraph,
    generated_html,  \* the raw markers in the serialized body, per key
    stripped,        \* history: substitution_count of each key decoded
    document_text,   \* jinja_template_variables["document_text"]
    ret,             \* what fix_word_html returned
    fixedBy,         \* history: per paragraph, the passes that fixed it
    examined,        \* history: per paragraph, the passes that looked at it
    numFiles,        \* len(yml_files)
    file_count,
    failed_file_count,
    return_values,   \* history: what create_web_page returned, file by file
    tocv,            \* the state of the table-of-contents extraction
    whitev,          \* history: the runs of the white-text pass
    sectv            \* the state of construct_html_sections() before the TOC

engineVars == <<numEncoded, paras, loose, orig, startEncoded, config, pc,
                word_list_item_list, passNo, idx, list_elements_to_remove,
                symbol_replace_count, bullets_fixed_count,
                unrecognized_indentation_units_list, num_text_indent_unrecognized,
                num_list_items_fixed, num_warning_messages, warnIn, messages, spans,
                num_spans_under_paragraph, num_spans_not_under_paragraph,
                generated_html, stripped, document_text, ret, fixedBy, examined>>

driverVars == <<numFiles, file_count, failed_file_count, return_values>>

vars == <<engineVars, driverVars, tocv, whitev, sectv>>

NoReturn == [code |-> -1, warnings |-> -1]

NoHtml == [k \in KeySet |-> -1]

\* the engine before any conversion
EngineInit ==
    /\ numEncoded = html_entity_encodings_g
    /\ paras = << >>
    /\ loose = << >>
    /\ orig = [paras |-> << >>, loose |-> << >>]
    /\ startEncoded = html_entity_encodings_g
    /\ config = "absent"
    /\ pc = "idle"
    /\ word_list_item_list = << >>
    /\ passNo = 0
    /\ idx = 0
    /\ list_elements_to_remove = << >>
    /\ symbol_replace_count = 0
    /\ bullets_fixed_count = 0
    /\ unrecognized_indentation_units_list = << >>
    /\ num_text_indent_unrecognized = 0
    /\ num_list_items_fixed = 0
    /\ num_warning_messages = 0
    /\ warnIn = 0
    /\ messages = << >>
    /\ spans = << >>
    /\ num_spans_under_paragraph = 0
    /\ num_spans_not_under_paragraph = 0
    /\ generated_html = NoHtml
    /\ stripped = NoHtml
    /\ document_text = NoHtml
    /\ ret = NoReturn
    /\ fixedBy = << >>
    /\ examined = << >>

\* ------------------------------------------------------------------------
\* fix_word_html(): candidate discovery
\* ------------------------------------------------------------------------

\* a faulty variant: the class of the paragraph is not looked at
IsCandidateAnyClass(p) ==
    /\ p.style # NoStyle
    /\ \E i \in DOMAIN p.style : p.style[i] \in TextIndentSymbols

\* find_all("p", class_=<the Word list styles>, attrs={"style": "text-indent:"})
IsCandidate(p) ==
    /\ p.cls = "list"
    /\ p.style # NoStyle
    /\ \E i \in DOMAIN p.style : p.style[i] \in TextIndentSymbols

Indices(n) == [i \in 1..n |-> i]

Candidates(doc) == SelectSeq(Indices(Len(doc)), LAMBDA i : IsCandidate(doc[i]))

Note(hist, pi, what) == [hist EXCEPT ![pi] = @ \cup {what}]

\* The call of fix_word_html and its first statement, the scan for the
\* candidate list-items.
fix_word_html(doc, spansOutside, cfg, w) ==
    /\ paras' = doc
    /\ loose' = spansOutside
    /\ orig' = [paras |-> doc, loose |-> spansOutside]
    /\ startEncoded' = numEncoded
    /\ config' = cfg
    /\ warnIn' = w
    /\ num_warning_messages' = w
    /\ messages' = << >>
    /\ word_list_item_list' = Candidates(doc)
    /\ pc' = "bullet"
    /\ passNo' = 1
    /\ idx' = 1
    /\ list_elements_to_remove' = << >>
    /\ symbol_replace_count' = 0
    /\ bullets_fixed_count' = 0
    /\ unrecognized_indentation_units_list' = << >>
    /\ num_text_indent_unrecognized' = 0
    /\ num_list_items_fixed' = 0
    /\ spans' = << >>
    /\ num_spans_under_paragraph' = 0
    /\ num_spans_not_under_paragraph' = 0
    /\ generated_html' = NoHtml
    /\ stripped' = NoHtml
    /\ ret' = NoReturn
    /\ fixedBy' = [i \in DOMAIN doc |-> {}]
    /\ examined' = [i \in DOMAIN doc |-> {}]
    /\ UNCHANGED <<numEncoded, document_text>>

\* ------------------------------------------------------------------------
\* fix_unordered_list_items(), called three times
\* ------------------------------------------------------------------------

\* a faulty variant: the solid-square pass is called first
BulletPassesSquareFirst ==
    << [name |-> "square", font |-> "Fwing", symbol |-> "sq",
        key |-> FIX_KEY_SOLID_SQUARE_BULLET],
       [name |-> "dot",    font |-> "Fsym",  symbol |-> "dot",
        key |-> FIX_KEY_SOLID_DOT_BULLET],
       [name |-> "o",      font |-> "Fcour", symbol |-> "o",
        key |-> FIX_KEY_LETTER_O_BULLET] >>

BulletPasses ==
    << [name |-> "dot",    font |-> "Fsym",  symbol |-> "dot",
        key |-> FIX_KEY_SOLID_DOT_BULLET],
       [name |-> "square", font |-> "Fwing", symbol |-> "sq",
        key |-> FIX_KEY_SOLID_SQUARE_BULLET],
       [name |-> "o",      font |-> "Fcour", symbol |-> "o",
        key |-> FIX_KEY_LETTER_O_BULLET] >>

\* a faulty variant: the font of the bullet symbol is not looked at
BulletChecksAnyFont(p, pass) ==
    /\ Len(p.strs) >= 2
    /\ p.strs[1].txt = pass.symbol
    /\ IsStyledSpan(p, p.strs[1].par)
    /\ test_if_span_with_only_spaces(p, p.strs[2].par)
    /\ p.els[p.strs[2].par].par = p.strs[1].par

\* the five tests a candidate passes to be fixed by a bullet pass
BulletChecks(p, pass) ==
    /\ Len(p.strs) >= 2
    /\ p.strs[1].txt = pass.symbol
    /\ IsStyledSpan(p, p.strs[1].par)
    /\ Search(p.els[p.strs[1].par].style, {pass.font})
    /\ test_if_span_with_only_spaces(p, p.strs[2].par)
    /\ p.els[p.strs[2].par].par = p.strs[1].par

\* a faulty variant: the bullet symbol is left as it is in every pass
FixBulletSpacesOnly(p, pass) == ReplaceWithRaw(p, 2, Encode[FIX_KEY_SIX_NBSPS])

\* the two replacements of a bullet pass
FixBullet(p, pass) ==
    LET p1 == IF Encode[pass.key] # ""
              THEN ReplaceWithRaw(p, 1, Encode[pass.key])
              ELSE p
    IN  ReplaceWithRaw(p1, 2, Encode[FIX_KEY_SIX_NBSPS])

\* for i in sorted(list_elements_to_remove, reverse=True): del list[i]
RemoveFixed(pool, removed) ==
    SelectSeq(Indices(Len(pool)),
              LAMBDA i : \A j \in DOMAIN removed : removed[j] # i)

\* a faulty variant: the fixed paragraphs stay in the pool
PoolAfterKeepAll(pool, removed) == pool

PoolAfter(pool, removed) ==
    LET keep == RemoveFixed(pool, removed)
    IN  [i \in DOMAIN keep |-> pool[keep[i]]]

\* a faulty variant: the spacing counter is assigned, not added to
RecordStatsAssign(enc, key, symbols, bullets) ==
    [enc EXCEPT ![key] = symbols, ![FIX_KEY_SIX_NBSPS] = bullets]

\* a faulty variant: the descriptor of the pass counts the list-items fixed
RecordStatsBullets(enc, key, symbols, bullets) ==
    [enc EXCEPT ![key] = bullets, ![FIX_KEY_SIX_NBSPS] = @ + bullets]

\* the stats recorded at the end of a bullet pass
RecordStats(enc, key, symbols, bullets) ==
    [enc EXCEPT ![key] = symbols, ![FIX_KEY_SIX_NBSPS] = @ + bullets]

\* one iteration of the loop over word_list_item_list
BulletStep ==
    /\ pc = "bullet"
    /\ idx <= Len(word_list_item_list)
    /\ LET pi   == word_list_item_list[idx]
           pass == BulletPasses[passNo]
       IN  /\ examined' = Note(examined, pi, pass.name)
           /\ IF BulletChecks(paras[pi], pass)
              THEN /\ paras' = [paras EXCEPT ![pi] = FixBullet(@, pass)]
                   /\ symbol_replace_count' =
                        IF Encode[pass.key] # "" THEN symbol_replace_count + 1
                        ELSE symbol_replace_count
                   /\ list_elements_to_remove' = Append(list_elements_to_remove, idx)
                   /\ bullets_fixed_count' = bullets_fixed_count + 1
                   /\ fixedBy' = Note(fixedBy, pi, pass.name)
              ELSE UNCHANGED <<paras, symbol_replace_count, list_elements_to_remove,
                               bullets_fixed_count, fixedBy>>
    /\ idx' = idx + 1
    /\ UNCHANGED <<numEncoded, loose, orig, startEncoded, config, pc,
                   word_list_item_list, passNo,
                   unrecognized_indentation_units_list, num_text_indent_unrecognized,
                   num_list_items_fixed, num_warning_messages, warnIn, messages, spans,
                   num_spans_under_paragraph, num_spans_not_under_paragraph,
                   generated_html, stripped, document_text, ret>>

\* the end of fix_unordered_list_items: the fixed paragraphs leave the pool,
\* the stats are recorded, and the next pass (or the ordered-list loop) starts
BulletEnd ==
    /\ pc = "bullet"
    /\ idx > Len(word_list_item_list)
    /\ word_list_item_list' = PoolAfter(word_list_item_list, list_elements_to_remove)
    /\ numEncoded' = RecordStats(numEncoded, BulletPasses[passNo].key,
                                 symbol_replace_count, bullets_fixed_count)
    /\ list_elements_to_remove' = << >>
    /\ symbol_replace_count' = 0
    /\ bullets_fixed_count' = 0
    /\ idx' = 1
    /\ IF passNo < Len(BulletPasses)
       THEN passNo' = passNo + 1 /\ pc' = "bullet"
       ELSE passNo' = 0 /\ pc' = "ordered"
    /\ UNCHANGED <<paras, loose, orig, startEncoded, config,
                   unrecognized_indentation_units_list, num_text_indent_unrecognized,
                   num_list_items_fixed, num_warning_messages, warnIn, messages, spans,
                   num_spans_under_paragraph, num_spans_not_under_paragraph,
                   generated_html, stripped, document_text, ret, fixedBy, examined>>

\* ------------------------------------------------------------------------
\* fix_word_html(): the ordered-list pass
\* ------------------------------------------------------------------------

\* What the tests of the ordered-list loop find in a candidate: whether it is
\* to be fixed (ok), whether it has pre-symbol spaces (pre), the index of the
\* post-symbol spaces among its strings (post), and the text-indent
\* declaration the test of the style matched (decl).
OrderedChecks(p) ==
    LET strs == p.strs
        pre  == Len(strs) >= 2 /\ test_if_span_with_only_spaces(p, strs[1].par)
        sym  == IF pre THEN 2 ELSE 1
        m    == SearchFrom(p.style, TextIndentDecls, 1)
        ok   == /\ Len(strs) >= 2
                /\ (pre => Len(strs) >= 3)
                /\ strs[sym].txt = "num"
                /\ test_if_span_with_only_spaces(p, strs[sym + 1].par)
                /\ strs[sym].par = p.els[strs[sym + 1].par].par
                /\ (pre => p.els[strs[1].par].par = strs[sym].par)
                /\ m.tok # 0
    IN  [ok |-> ok, pre |-> pre, post |-> sym + 1,
         decl |-> IF ok THEN p.style[m.tok] ELSE ""]

\* a faulty variant: the pre-symbol span is left in the paragraph
FixSpacingKeepPre(p, c) == ReplaceWithRaw(p, c.post, Encode[FIX_KEY_SIX_NBSPS])

\* the post-symbol spaces are replaced and the pre-symbol span is destroyed
FixSpacing(p, c) ==
    LET p1 == ReplaceWithRaw(p, c.post, Encode[FIX_KEY_SIX_NBSPS])
    IN  IF c.pre THEN Decompose(p1, p.strs[1].par) ELSE p1

\* re.subn(r"((?:^|;)text-indent:)([+-]?[\.0-9]+[a-zA-Z]+)($|;)", "\\1-.25in\\3", style)
RewriteTextIndent(style) == Subn(style, TextIndentDecls, "Tfix")

Returns(code) ==
    /\ ret' = [code |-> code, warnings |-> num_warning_messages]
    /\ pc' = "returned"

\* a faulty variant: the ordered-list pass does not count its replacements
CountSpacingNot(enc) == enc

\* html_entity_encodings_g[FIX_KEY_SIX_NBSPS][FIX_KEY_NUMBER_ENCODED] += 1
CountSpacing(enc) == [enc EXCEPT ![FIX_KEY_SIX_NBSPS] = @ + 1]

\* one iteration of the loop over what is left of word_list_item_list
OrderedStep ==
    /\ pc = "ordered"
    /\ idx <= Len(word_list_item_list)
    /\ LET pi  == word_list_item_list[idx]
           p   == paras[pi]
           c   == OrderedChecks(p)
           sub == RewriteTextIndent(p.style)
       IN  /\ examined' = Note(examined, pi, "ordered")
           /\ IF ~c.ok
              THEN /\ idx' = idx + 1
                   /\ UNCHANGED <<paras, numEncoded, num_text_indent_unrecognized,
                                  unrecognized_indentation_units_list,
                                  num_list_items_fixed, fixedBy, pc, ret>>
              ELSE /\ IF TextIndentUnit[c.decl] # "in"
                      THEN /\ num_text_indent_unrecognized' =
                                num_text_indent_unrecognized + 1
                           /\ unrecognized_indentation_units_list' =
                                Append(unrecognized_indentation_units_list, c.decl)
                      ELSE UNCHANGED <<num_text_indent_unrecognized,
                                       unrecognized_indentation_units_list>>
                   /\ numEncoded' = CountSpacing(numEncoded)
                   /\ IF sub.n # 1
                      THEN /\ paras' = [paras EXCEPT ![pi] = FixSpacing(p, c)]
                           /\ Returns(1)
                           /\ UNCHANGED <<idx, num_list_items_fixed, fixedBy>>
                      ELSE /\ paras' = [paras EXCEPT ![pi] =
                                           [FixSpacing(p, c) EXCEPT !.style = sub.out]]
                           /\ num_list_items_fixed' = num_list_items_fixed + 1
                           /\ fixedBy' = Note(fixedBy, pi, "ordered")
                           /\ idx' = idx + 1
                           /\ UNCHANGED <<pc, ret>>
    /\ UNCHANGED <<loose, orig, startEncoded, config, word_list_item_list, passNo,
                   list_elements_to_remove, symbol_replace_count, bullets_fixed_count,
                   num_warning_messages, warnIn, messages, spans,
                   num_spans_under_paragraph, num_spans_not_under_paragraph,
                   generated_html, stripped, document_text>>

\* ------------------------------------------------------------------------
\* fix_word_html(): the white-text pass
\* ------------------------------------------------------------------------

\* a faulty variant: without the key, color:white is removed everywhere
KeyWhiteTextValueRemoveAll(cfg) == IF cfg = "absent" THEN YML_REMOVE_ALL ELSE cfg

\* key_white_text_value
KeyWhiteTextValue(cfg) == IF cfg = "absent" THEN YML_DO_NOT_REMOVE ELSE cfg

\* the style has a color:white declaration: re.compile(regex, re.M) of find_all
HasColorWhite(style) == style # NoStyle /\ Search(style, {"W"})

RECURSIVE SpansIn(_, _, _)
SpansIn(doc, pi, e) ==
    IF pi > Len(doc) THEN << >>
    ELSE IF e > Len(doc[pi].els) THEN SpansIn(doc, pi + 1, 1)
    ELSE (IF doc[pi].els[e].tag = "span" /\ HasColorWhite(doc[pi].els[e].style)
          THEN << [p |-> pi, e |-> e] >> ELSE << >>) \o SpansIn(doc, pi, e + 1)

\* body_inner_html.find_all("span", attrs={"style": re.compile(regex, re.M)});
\* p = 0 marks a span that is under no paragraph
FindWhiteSpans(doc, outside) ==
    SpansIn(doc, 1, 1)
    \o SelectSeq([j \in DOMAIN outside |-> [p |-> 0, e |-> j]],
                 LAMBDA r : HasColorWhite(outside[r.e]))

\* a faulty variant: the duplicates stay in the list
DedupNone(list) == list

\* list(set(unrecognized_indentation_units_list)): every element once (the
\* order of a Python set is not defined; the order of first occurrence is
\* taken)
Dedup(list) ==
    LET keep == SelectSeq(Indices(Len(list)),
                          LAMBDA i : \A j \in 1..(i - 1) : list[j] # list[i])
    IN  [k \in DOMAIN keep |-> list[keep[k]]]

\* the set-up of the white-text pass: the search for the spans
WhiteSetup ==
    /\ spans' = FindWhiteSpans(paras, loose)
    /\ num_spans_under_paragraph' = 0
    /\ num_spans_not_under_paragraph' = 0
    /\ pc' = "white"
    /\ idx' = 1

\* a faulty variant: one warning is counted for every list-item
WarnPerItem(w, n) == w + n

\* if (num_text_indent_unrecognized > 0): num_warning_messages += 1
WarnUnits(w, n) == IF n > 0 THEN w + 1 ELSE w

\* the end of the ordered-list loop: the warning about the units, and the
\* set-up of the white-text pass
OrderedEnd ==
    /\ pc = "ordered"
    /\ idx > Len(word_list_item_list)
    /\ num_warning_messages' =
          WarnUnits(num_warning_messages, num_text_indent_unrecognized)
    /\ messages' =
          IF num_text_indent_unrecognized > 0
          THEN Append(messages,
                   [kind  |-> "units",
                    specs |-> Dedup(unrecognized_indentation_units_list)])
          ELSE messages
    /\ WhiteSetup
    /\ UNCHANGED <<numEncoded, paras, loose, orig, startEncoded, config,
                   word_list_item_list, passNo, list_elements_to_remove,
                   symbol_replace_count, bullets_fixed_count,
                   unrecognized_indentation_units_list, num_text_indent_unrecognized,
                   num_list_items_fixed, warnIn, generated_html, stripped,
                   document_text, ret, fixedBy, examined>>

\* a faulty variant: the ancestors of the span are not looked at
RemovalRequiredAnywhere(value, paragraph_ancestor_found) ==
    value \in {YML_REMOVE_IN_PARAGRAPHS, YML_REMOVE_ALL}

\* whether color:white is to be removed from a span
RemovalRequired(value, paragraph_ancestor_found) ==
    \/ (value = YML_REMOVE_IN_PARAGRAPHS /\ paragraph_ancestor_found)
    \/ value = YML_REMOVE_ALL

\* The removal of color:white from one style: the new style (NoStyle when
\* the attribute is deleted) and whether the substitution failed.
RemoveColorWhite(style) ==
    IF style = <<"W">> THEN [style |-> NoStyle, failed |-> FALSE]
    ELSE LET sub == Subn(style, {"W"}, "")
         IN  IF sub.n # 1 THEN [style |-> style, failed |-> TRUE]
             ELSE [style |-> sub.out, failed |-> FALSE]

StyleOf(doc, outside, r) == IF r.p = 0 THEN outside[r.e] ELSE doc[r.p].els[r.e].style

\* one iteration of the loop over spans
WhiteStep ==
    /\ pc = "white"
    /\ idx <= Len(spans)
    /\ LET r     == spans[idx]
           under == r.p # 0
           new   == RemoveColorWhite(StyleOf(paras, loose, r))
       IN  /\ IF under
              THEN /\ num_spans_under_paragraph' = num_spans_under_paragraph + 1
                   /\ UNCHANGED num_spans_not_under_paragraph
              ELSE /\ num_spans_not_under_paragraph' = num_spans_not_under_paragraph + 1
                   /\ UNCHANGED num_spans_under_paragraph
           /\ IF ~RemovalRequired(KeyWhiteTextValue(config), under)
              THEN /\ idx' = idx + 1
                   /\ UNCHANGED <<paras, loose, pc, ret>>
              ELSE IF new.failed
              THEN /\ Returns(1)
                   /\ UNCHANGED <<paras, loose, idx>>
              ELSE /\ idx' = idx + 1
                   /\ IF under
                      THEN /\ paras' = [paras EXCEPT ![r.p].els[r.e].style = new.style]
                           /\ UNCHANGED loose
                      ELSE /\ loose' = [loose EXCEPT ![r.e] = new.style]
                           /\ UNCHANGED paras
                   /\ UNCHANGED <<pc, ret>>
    /\ UNCHANGED <<numEncoded, orig, startEncoded, config, word_list_item_list,
                   passNo, list_elements_to_remove, symbol_replace_count,
                   bullets_fixed_count, unrecognized_indentation_units_list,
                   num_text_indent_unrecognized, num_list_items_fixed,
                   num_warning_messages, warnIn, messages, spans, generated_html,
                   stripped, document_text, fixedBy, examined>>

\* ------------------------------------------------------------------------
\* fix_word_html(): serialization and the removal of the script tags
\* ------------------------------------------------------------------------

RECURSIVE CountText(_, _)
\* the strings of the body whose text is one of txts
CountText(doc, txts) ==
    IF doc = << >> THEN 0
    ELSE Cardinality({i \in DOMAIN Head(doc).strs : Head(doc).strs[i].txt \in txts})
         + CountText(Tail(doc), txts)

AllTexts == {"dot", "sq", "o", "num", "nbsp", "text", "raw_dot", "raw_sq", "raw_six"}

\* The matches of a descriptor's encode string, taken as a regular
\* expression, in the serialized body.  The empty expression of the letter-o
\* descriptor matches once before every character and once at the end; the
\* strings of the body stand for its characters.
Occurrences(doc, key) ==
    IF Encode[key] = "" THEN CountText(doc, AllTexts) + 1
    ELSE CountText(doc, {Encode[key]})

\* generated_html = body_inner_html.decode(formatter="html")
Serialize(doc) == [k \in KeySet |-> Occurrences(doc, k)]

\* a faulty variant: the warning is counted whether spans were found or not
WarnAlways(w, found) == w + 1

\* if (num_spans_not_under_paragraph + num_spans_under_paragraph) > 0:
\*     num_warning_messages += 1
WarnIfAny(w, found) == IF found > 0 THEN w + 1 ELSE w

\* the end of the loop over spans: the warning, and the serialization
WhiteEnd ==
    /\ pc = "white"
    /\ idx > Len(spans)
    /\ num_warning_messages' =
          WarnIfAny(num_warning_messages,
                    num_spans_not_under_paragraph + num_spans_under_paragraph)
    /\ messages' =
          IF num_spans_not_under_paragraph + num_spans_under_paragraph > 0
          THEN Append(messages, [kind |-> "white", specs |-> << >>])
          ELSE messages
    /\ generated_html' = Serialize(paras)
    /\ pc' = "decode"
    /\ idx' = 1
    /\ UNCHANGED <<numEncoded, paras, loose, orig, startEncoded, config,
                   word_list_item_list, passNo, list_elements_to_remove,
                   symbol_replace_count, bullets_fixed_count,
                   unrecognized_indentation_units_list, num_text_indent_unrecognized,
                   num_list_items_fixed, warnIn, spans, num_spans_under_paragraph,
                   num_spans_not_under_paragraph, stripped, document_text, ret,
                   fixedBy, examined>>

\* a faulty variant: no descriptor is decoded
DecodeNeededNever(enc, key) == FALSE

\* whether the script tags of a descriptor are removed from the text
DecodeNeeded(enc, key) == enc[key] # 0

\* if (substitution_count != html_entity_encodings_g[key][FIX_KEY_NUM_ENCODED])
SubstitutionIgnored(substitution_count, num_encoded) == FALSE

SubstitutionFailed(substitution_count, num_encoded) ==
    substitution_count # num_encoded

\* one iteration of the loop over html_entity_encodings_g
DecodeStep ==
    /\ pc = "decode"
    /\ idx <= Len(Keys)
    /\ LET key == Keys[idx]
           substitution_count == generated_html[key]
       IN  IF ~DecodeNeeded(numEncoded, key)
           THEN /\ idx' = idx + 1
                /\ UNCHANGED <<generated_html, stripped, pc, ret>>
           ELSE /\ generated_html' = [generated_html EXCEPT ![key] = 0]
                /\ stripped' = [stripped EXCEPT ![key] = substitution_count]
                /\ IF SubstitutionFailed(substitution_count, numEncoded[key])
                   THEN Returns(1) /\ UNCHANGED idx
                   ELSE idx' = idx + 1 /\ UNCHANGED <<pc, ret>>
    /\ UNCHANGED <<numEncoded, paras, loose, orig, startEncoded, config,
                   word_list_item_list, passNo, list_elements_to_remove,
                   symbol_replace_count, bullets_fixed_count,
                   unrecognized_indentation_units_list, num_text_indent_unrecognized,
                   num_list_items_fixed, num_warning_messages, warnIn, messages, spans,
                   num_spans_under_paragraph, num_spans_not_under_paragraph,
                   document_text, fixedBy, examined>>

\* jinja_template_variables["document_text"] = generated_html; return 0
Finish ==
    /\ pc = "decode"
    /\ idx > Len(Keys)
    /\ document_text' = generated_html
    /\ Returns(0)
    /\ UNCHANGED <<numEncoded, paras, loose, orig, startEncoded, config,
                   word_list_item_list, passNo, idx, list_elements_to_remove,
                   symbol_replace_count, bullets_fixed_count,
                   unrecognized_indentation_units_list, num_text_indent_unrecognized,
                   num_list_items_fixed, num_warning_messages, warnIn, messages, spans,
                   num_spans_under_paragraph, num_spans_not_under_paragraph,
                   generated_html, stripped, fixedBy, examined>>

\* the steps of fix_word_html after its call
EngineStep ==
    \/ BulletStep
    \/ BulletEnd
    \/ OrderedStep
    \/ OrderedEnd
    \/ WhiteStep
    \/ WhiteEnd
    \/ DecodeStep
    \/ Finish

\* ------------------------------------------------------------------------
\* One conversion, started with the counters as the import leaves them
\* ------------------------------------------------------------------------

\* the table-of-contents extraction has not started
TocIdle ==
    [pc |-> "off", nodes |-> << >>, body |-> << >>, all_paragraphs |-> << >>,
     empty_paragraphs |-> << >>, toc_paragraphs |-> << >>, soup_toc |-> << >>,
     destroyed |-> {}, i |-> 0, inner |-> << >>,
     toc_entries_without_hyperlink |-> 0, counted |-> << >>]

\* no run of the white-text pass has started: the count of the runs, the body
\* at the start of the latest run and the warning count at that start
WhiteIdle == [runs |-> 0, body |-> [paras |-> << >>, loose |-> << >>], w |-> 0]

\* construct_html_sections() was not called: the children left in <body>,
\* the fragment body_inner_html, len(body_contents_list) and the loop index,
\* the parameter file's header bar, the string header_bar_table, the slot
\* jinja_template_variables["header_bar"] and what the function returned
NoHeaderBar == [present |-> FALSE, sections |-> << >>]

SlotUnset == [written |-> FALSE, value |-> << >>]

NoSectReturn == [code |-> -1, value |-> "unset"]

SectIdle == [pc |-> "off", nodes |-> << >>, body |-> << >>,
             body_inner_html |-> << >>, n |-> 0, i |-> 0,
             header_bar |-> NoHeaderBar, section |-> 1,
             header_bar_table |-> << >>,
             slot |-> SlotUnset, ret |-> NoSectReturn]

InitConv ==
    /\ EngineInit
    /\ numFiles = 1
    /\ file_count = 0
    /\ failed_file_count = 0
    /\ return_values = << >>
    /\ tocv = TocIdle
    /\ whitev = WhiteIdle
    /\ sectv = SectIdle

\* num_warning_messages as the caller passes it
WarningsIn == {0, 1}

\* the calls of fix_word_html that are checked: every document of RichParas
\* with the default policy, and every document of WhiteParas with every
\* policy and with spans under no paragraph
ConvInputs ==
    {[doc |-> d, out |-> << >>, cfg |-> "absent", w |-> w] :
        d \in Docs(RichParas), w \in WarningsIn}
    \cup
    {[doc |-> c[1], out |-> c[2], cfg |-> c[3], w |-> c[4]] :
        c \in Docs(WhiteParas) \X LooseSpans \X WhiteTextConfigs \X WarningsIn}

Convert ==
    /\ pc = "idle"
    /\ \E in \in ConvInputs : fix_word_html(in.doc, in.out, in.cfg, in.w)
    /\ UNCHANGED <<driverVars, tocv, whitev, sectv>>

NextConv ==
    \/ Convert
    \/ (EngineStep /\ UNCHANGED <<driverVars, tocv, whitev, sectv>>)

SpecConv == InitConv /\ [][NextConv]_vars

\* ------------------------------------------------------------------------
\* create_web_page_for_all_yml_files.py: the batch run
\* ------------------------------------------------------------------------

Init ==
    /\ EngineInit
    /\ numFiles \in 0..MaxFiles
    /\ file_count = 0
    /\ failed_file_count = 0
    /\ return_values = << >>
    /\ tocv = TocIdle
    /\ whitev = WhiteIdle
    /\ sectv = SectIdle

\* the loop goes on to the next file only after a conversion that succeeded
MoreFilesUnlessError(count, n, return_value) == count < n /\ return_value # 1

\* for file_name in yml_files: the loop has a next file, whatever the last
\* conversion returned
MoreFiles(count, n, return_value) == count < n

\* for file_name in yml_files: file_count += 1; create_web_page(...), which
\* converts the file's document in this process
NextFileOf(docs) ==
    /\ pc = "idle"
    /\ MoreFiles(file_count, numFiles, ret.code)
    /\ file_count' = file_count + 1
    /\ \E doc \in docs, cfg \in {"absent", YML_REMOVE_ALL} :
          fix_word_html(doc, << >>, cfg, 0)
    /\ UNCHANGED <<numFiles, failed_file_count, return_values, tocv, whitev, sectv>>

\* if return_value == 1: failed_file_count += 1
FileDone ==
    /\ pc = "returned"
    /\ failed_file_count' = IF ret.code = 1 THEN failed_file_count + 1
                            ELSE failed_file_count
    /\ return_values' = Append(return_values, ret.code)
    /\ pc' = "idle"
    /\ UNCHANGED <<numEncoded, paras, loose, orig, startEncoded, config,
                   word_list_item_list, passNo, idx, list_elements_to_remove,
                   symbol_replace_count, bullets_fixed_count,
                   unrecognized_indentation_units_list, num_text_indent_unrecognized,
                   num_list_items_fixed, num_warning_messages, warnIn, messages, spans,
                   num_spans_under_paragraph, num_spans_not_under_paragraph,
                   generated_html, stripped, document_text, ret, fixedBy, examined,
                   numFiles, file_count, tocv, whitev, sectv>>

NextFile == NextFileOf(Docs(BatchParas))

Next ==
    \/ NextFile
    \/ (EngineStep /\ UNCHANGED <<driverVars, tocv, whitev, sectv>>)
    \/ FileDone

Spec == Init /\ [][Next]_vars

\* The batch run as the interpreter runs it: the loop and the conversion it
\* calls are one sequential program, which takes its next step whenever it
\* has one.
\* The files of this batch have one paragraph each, or none.
ShortDocs == {<< >>} \cup {<<p>> : p \in BatchParas}

NextShortFile == NextFileOf(ShortDocs)

NextBatch ==
    \/ NextShortFile
    \/ (EngineStep /\ UNCHANGED <<driverVars, tocv, whitev, sectv>>)
    \/ FileDone

SpecBatch == Init /\ [][NextBatch]_vars /\ WF_vars(NextBatch)

\* ------------------------------------------------------------------------
\* The white-text pass on every style of a span, run and run again
\* ------------------------------------------------------------------------

StyleSymbols == {"W", "X", ";", "NL"}

\* the style values of at most MaxStyleLen symbols
Styles == UNION {[1..n -> StyleSymbols] : n \in 1..MaxStyleLen}

\* where the span is: under a paragraph, under none, or one span at each place
Placements == {"under", "loose", "both"}

WhiteBody(style, place) ==
    [paras |-> IF place = "loose" THEN <<Para("other", NoStyle, PlainText)>>
               ELSE <<Para("other", NoStyle, WithSpan(style))>>,
     loose |-> IF place = "under" THEN << >> ELSE <<style>>]

\* how many times the pass is run on one body
MaxRuns == 2

\* the body that the ordered-list pass hands to the white-text pass
WhiteLoad ==
    /\ pc = "idle"
    /\ \E style \in Styles, place \in Placements,
          cfg \in WhiteTextConfigs, w \in WarningsIn :
          /\ paras' = WhiteBody(style, place).paras
          /\ loose' = WhiteBody(style, place).loose
          /\ config' = cfg
          /\ num_warning_messages' = w
    /\ pc' = "ready"
    /\ UNCHANGED <<numEncoded, orig, startEncoded, word_list_item_list, passNo, idx,
                   list_elements_to_remove, symbol_replace_count, bullets_fixed_count,
                   unrecognized_indentation_units_list, num_text_indent_unrecognized,
                   num_list_items_fixed, warnIn, messages, spans,
                   num_spans_under_paragraph, num_spans_not_under_paragraph,
                   generated_html, stripped, document_text, ret, fixedBy, examined,
                   driverVars, tocv, whitev, sectv>>

\* The white-text pass starts: on the body as the ordered-list pass leaves
\* it, and again on the body the pass has left.
WhiteStart ==
    /\ pc \in {"ready", "decode"}
    /\ whitev.runs < MaxRuns
    /\ WhiteSetup
    /\ whitev' = [runs |-> whitev.runs + 1,
                  body |-> [paras |-> paras, loose |-> loose],
                  w    |-> num_warning_messages]
    /\ UNCHANGED <<numEncoded, paras, loose, orig, startEncoded, config,
                   word_list_item_list, passNo, list_elements_to_remove,
                   symbol_replace_count, bullets_fixed_count,
                   unrecognized_indentation_units_list, num_text_indent_unrecognized,
                   num_list_items_fixed, num_warning_messages, warnIn, messages,
                   generated_html, stripped, document_text, ret, fixedBy, examined,
                   driverVars, tocv, sectv>>

NextWhite ==
    \/ WhiteLoad
    \/ WhiteStart
    \/ (WhiteStep /\ UNCHANGED <<driverVars, tocv, whitev, sectv>>)
    \/ (WhiteEnd /\ UNCHANGED <<driverVars, tocv, whitev, sectv>>)

SpecWhite == InitConv /\ [][NextWhite]_vars

\* ------------------------------------------------------------------------
\* construct_html_sections(): the extraction of the table of contents
\* ------------------------------------------------------------------------

\* A text is a sequence of characters: "a" a character that is not
\* whitespace, "sp" a space or a decoded &nbsp;, "NL" a line break.
Whitespace == {"sp", "NL"}

\* re.search(r'^\s*$', text, re.M)
SearchAllWhitespace(text) ==
    \E i \in 1..(Len(text) + 1) : \E j \in (i - 1)..Len(text) :
        /\ AtLineStart(text, i)
        /\ \A k \in i..j : text[k] \in Whitespace
        /\ AtLineEnd(text, j + 1)

\* re.search(r'^\n+$', text, re.M)
SearchNewlines(text) ==
    \E i \in 1..Len(text) : \E j \in i..Len(text) :
        /\ AtLineStart(text, i)
        /\ \A k \in i..j : text[k] = "NL"
        /\ AtLineEnd(text, j + 1)

\* the class names of the paragraphs of the bodies
ClassNames ==
    {"MsoToc1", "MsoToc2", "MsoToc3", "MsoToc4", "MsoToc5", "MsoToc6", "MsoToc7",
     "MsoToc8", "MsoToc9", "MsoTocHeading", "MsoNormal"}

\* a faulty variant: every class name
TocClassAny == ClassNames

\* the class names in which re.search(r'^MsoToc[1-9]$', paragraph_class, re.M)
\* finds a match
TocClass == ClassNames \ {"MsoTocHeading", "MsoNormal"}

\* paragraph.string of a paragraph with several children, or with none
None == <<"None">>

\* a paragraph: its class attribute (a list of names, empty when it has no
\* class attribute) and its .string
P(class, string) == [kind |-> "p", class |-> class, string |-> string]

\* a string that is a child of the body
S(string) == [kind |-> "str", class |-> << >>, string |-> string]

\* the children of body_inner_html that the bodies are made of
TocNodes ==
    { P(<< >>, <<"sp">>),
      P(<<"MsoToc1">>, <<"sp">>),
      P(<<"MsoToc1">>, <<"a">>),
      P(<<"MsoToc2">>, <<"a", "NL">>),
      P(<<"MsoToc9">>, None),
      P(<<"MsoTocHeading">>, <<"a">>),
      P(<<"MsoToc1", "MsoNormal">>, <<"a">>),
      P(<< >>, <<"a">>),
      P(<< >>, <<"NL", "a">>),
      S(<<"NL">>) }

\* the bodies of at most MaxBody children
Bodies == UNION {[1..n -> TocNodes] : n \in 0..MaxBody}

\* body_inner_html.find_all('p'): the paragraphs, in document order
FindAllP(nodes) == SelectSeq(Indices(Len(nodes)), LAMBDA i : nodes[i].kind = "p")

\* the test of the first loop: the paragraph has a string, of whitespace
IsEmptyParagraph(node) == node.string # None /\ SearchAllWhitespace(node.string)

\* the test of the second loop: one class, MsoToc and a digit
IsTocParagraph(node) == Len(node.class) = 1 /\ node.class[1] \in TocClass

RECURSIVE RunLength(_, _, _, _)
\* how many paragraphs of ps, from position from on, pass a test before one
\* fails it (test is "empty" or "toc")
RunLength(nodes, ps, from, test) ==
    IF from > Len(ps) THEN 0
    ELSE IF (IF test = "empty" THEN IsEmptyParagraph(nodes[ps[from]])
             ELSE IsTocParagraph(nodes[ps[from]]))
    THEN 1 + RunLength(nodes, ps, from + 1, test)
    ELSE 0

Without(seq, ids) == SelectSeq(seq, LAMBDA x : x \notin ids)

PositionIn(seq, x) == CHOOSE k \in DOMAIN seq : seq[k] = x

\* The inside of a paragraph, as far as the hyperlink styling reads it:
\* whether the paragraph has a string, and the elements between its first
\* string and the paragraph, the parent of the string first.  An element is
\* its tag name and its class attribute: whether it has one, and the names.
Class(names) == [present |-> TRUE, names |-> names]

NoClass == [present |-> FALSE, names |-> << >>]

Element(name, class) == [name |-> name, class |-> class]

Inside(has_string, chain) == [has_string |-> has_string, chain |-> chain]

\* the inside of a node: as given with the node, else a string that is a
\* child of the paragraph, or no string when .string is None
Inner(node) ==
    IF "inner" \in DOMAIN node THEN node.inner
    ELSE Inside(node.string # None, << >>)

\* class_="MsoHyperlink"
MSO_HYPERLINK == "MsoHyperlink"

TOC_ANCHOR == "tocAnchor"

\* element['class'].append('tocAnchor'), after element['class'] = [] when
\* the element has no class attribute
AddTocAnchor(element) ==
    [element EXCEPT !.class = Class(Append(element.class.names, TOC_ANCHOR))]

\* paragraph.find('span', class_="MsoHyperlink"): the first in document
\* order, which on the chain is the farthest from the string; 0 when none
HyperlinkSpan(chain) ==
    LET found == {k \in DOMAIN chain :
                     /\ chain[k].name = "span"
                     /\ \E c \in DOMAIN chain[k].class.names :
                           chain[k].class.names[c] = MSO_HYPERLINK}
    IN  IF found = {} THEN 0 ELSE CHOOSE k \in found : \A m \in found : m <= k

\* a faulty variant: the anchor farthest from the string
FarthestAnchor(chain) ==
    LET found == {k \in DOMAIN chain : chain[k].name = "a"}
    IN  IF found = {} THEN 0 ELSE CHOOSE k \in found : \A m \in found : m <= k

\* for parent in paragraph_string.parents: the first anchor met before the
\* paragraph; 0 when the paragraph is met first
NearestAnchor(chain) ==
    LET found == {k \in DOMAIN chain : chain[k].name = "a"}
    IN  IF found = {} THEN 0 ELSE CHOOSE k \in found : \A m \in found : k <= m

tocUnchanged == UNCHANGED <<engineVars, driverVars, whitev, sectv>>

\* the two loops that collect the empty paragraphs and the TOC paragraphs,
\* on the children of body_inner_html
TocScanOn(nodes) ==
    LET all_paragraphs == FindAllP(nodes)
        num_empty_paragraphs == RunLength(nodes, all_paragraphs, 1, "empty")
        num_toc_paragraphs ==
            RunLength(nodes, all_paragraphs, num_empty_paragraphs + 1, "toc")
    IN  tocv' = [pc |-> IF num_toc_paragraphs = 0 THEN "links"
                        ELSE IF num_empty_paragraphs = 0 THEN "move"
                        ELSE "destroy",
                 nodes |-> nodes,
                 body |-> Indices(Len(nodes)),
                 all_paragraphs |-> all_paragraphs,
                 empty_paragraphs |->
                     SubSeq(all_paragraphs, 1, num_empty_paragraphs),
                 toc_paragraphs |->
                     SubSeq(all_paragraphs, num_empty_paragraphs + 1,
                            num_empty_paragraphs + num_toc_paragraphs),
                 soup_toc |-> << >>,
                 destroyed |-> {},
                 i |-> 1,
                 inner |-> [k \in DOMAIN nodes |-> Inner(nodes[k])],
                 toc_entries_without_hyperlink |-> 0,
                 counted |-> << >>]

TocScan ==
    /\ tocv.pc = "off"
    /\ \E nodes \in Bodies : TocScanOn(nodes)
    /\ tocUnchanged

\* empty_paragraphs[i].decompose()
TocDestroy ==
    /\ tocv.pc = "destroy"
    /\ LET id == tocv.empty_paragraphs[tocv.i]
       IN  tocv' = [tocv EXCEPT
                      !.body = Without(@, {id}),
                      !.destroyed = @ \cup {id},
                      !.i = IF tocv.i = Len(tocv.empty_paragraphs) THEN 1 ELSE @ + 1,
                      !.pc = IF tocv.i = Len(tocv.empty_paragraphs) THEN "move" ELSE @]
    /\ tocUnchanged

\* a faulty variant: the appended nodes stay in body_inner_html as well
AppendToTocCopy(body, soup_toc, moved) ==
    [body |-> body, soup_toc |-> soup_toc \o moved]

\* soup_toc.append(x) for each of the nodes moved: they leave body_inner_html
AppendToToc(body, soup_toc, moved) ==
    [body |-> Without(body, {moved[k] : k \in DOMAIN moved}),
     soup_toc |-> soup_toc \o moved]

\* one TOC paragraph, and the line breaks after it, are appended to soup_toc
TocMove ==
    /\ tocv.pc = "move"
    /\ LET id  == tocv.toc_paragraphs[tocv.i]
           at  == PositionIn(tocv.body, id)
           newline_after_toc_paragraph ==
               /\ at < Len(tocv.body)
               /\ tocv.nodes[tocv.body[at + 1]].kind = "str"
               /\ SearchNewlines(tocv.nodes[tocv.body[at + 1]].string)
           moved == IF newline_after_toc_paragraph
                    THEN <<id, tocv.body[at + 1]>> ELSE <<id>>
           after == AppendToToc(tocv.body, tocv.soup_toc, moved)
       IN  tocv' = [tocv EXCEPT
                      !.soup_toc = after.soup_toc,
                      !.body = after.body,
                      !.i = IF tocv.i = Len(tocv.toc_paragraphs) THEN 1 ELSE @ + 1,
                      !.pc = IF tocv.i = Len(tocv.toc_paragraphs) THEN "links" ELSE @]
    /\ tocUnchanged

\* soup_toc.find_all('p')
TocFragmentParagraphs ==
    SelectSeq(tocv.soup_toc, LAMBDA id : tocv.nodes[id].kind = "p")

\* one iteration of the loop over the paragraphs of soup_toc: the class of
\* the hyperlink span, then the class of the anchor of the first string, or
\* the count of the entries without a hyperlink
TocLink ==
    /\ tocv.pc = "links"
    /\ tocv.i <= Len(TocFragmentParagraphs)
    /\ LET id     == TocFragmentParagraphs[tocv.i]
           inside == tocv.inner[id]
           span   == HyperlinkSpan(inside.chain)
           chain1 == IF span = 0 THEN inside.chain
                     ELSE [inside.chain EXCEPT ![span] = AddTocAnchor(@)]
           anchor == IF inside.has_string THEN NearestAnchor(chain1) ELSE 0
           chain2 == IF anchor = 0 THEN chain1
                     ELSE [chain1 EXCEPT ![anchor] = AddTocAnchor(@)]
       IN  tocv' = [tocv EXCEPT
                      !.inner[id].chain = chain2,
                      !.toc_entries_without_hyperlink =
                          IF anchor = 0 THEN @ + 1 ELSE @,
                      !.counted = IF anchor = 0 THEN Append(@, id) ELSE @,
                      !.i = @ + 1]
    /\ tocUnchanged

\* the loop has ended: toc_html = soup_toc.decode(formatter="html") and the
\* slot table_of_contents
TocLinksEnd ==
    /\ tocv.pc = "links"
    /\ tocv.i > Len(TocFragmentParagraphs)
    /\ tocv' = [tocv EXCEPT !.pc = "done"]
    /\ tocUnchanged

NextToc ==
    \/ TocScan
    \/ TocDestroy
    \/ TocMove
    \/ TocLink
    \/ TocLinksEnd

SpecToc == InitConv /\ [][NextToc]_vars

\* ------------------------------------------------------------------------
\* The table of contents of bodies whose paragraphs have anchors and spans
\* ------------------------------------------------------------------------

\* the children of the bodies
MaxToc == 3

\* a child of body_inner_html with its inside
LinkNode(node, inner) ==
    [kind |-> node.kind, class |-> node.class, string |-> node.string,
     inner |-> inner]

Anchor == Element("a", NoClass)

\* the children the bodies are made of
LinkNodes ==
    { \* <p class=MsoToc1><span class=MsoHyperlink><a href=..>x</a></span></p>
      LinkNode(P(<<"MsoToc1">>, <<"a">>),
               Inside(TRUE, <<Anchor, Element("span", Class(<<MSO_HYPERLINK>>))>>)),
      \* <p class=MsoToc2><a class=c href=..>x</a></p>
      LinkNode(P(<<"MsoToc2">>, <<"a">>),
               Inside(TRUE, <<Element("a", Class(<<"c">>))>>)),
      \* <p class=MsoToc1><a name=..><a href=..><b>x</b></a></a></p>
      LinkNode(P(<<"MsoToc1">>, <<"a">>),
               Inside(TRUE, <<Element("b", NoClass), Anchor,
                              Element("a", Class(<<"c">>))>>)),
      \* <p class=MsoToc3><span class=MsoHyperlink>x</span></p>
      LinkNode(P(<<"MsoToc3">>, <<"a">>),
               Inside(TRUE, <<Element("span", Class(<<MSO_HYPERLINK>>))>>)),
      \* <p class=MsoToc1>x</p>
      LinkNode(P(<<"MsoToc1">>, <<"a">>), Inside(TRUE, << >>)),
      \* <p class=MsoToc1><a name=..></a></p>
      LinkNode(P(<<"MsoToc1">>, None), Inside(FALSE, << >>)),
      \* <p>&nbsp;</p>
      LinkNode(P(<< >>, <<"sp">>), Inside(TRUE, << >>)),
      \* <p class=MsoNormal><a href=..>x</a></p>
      LinkNode(P(<<"MsoNormal">>, <<"a">>), Inside(TRUE, <<Anchor>>)),
      LinkNode(S(<<"NL">>), Inside(FALSE, << >>)) }

LinkBodies == UNION {[1..n -> LinkNodes] : n \in 0..MaxToc}

LinkScan ==
    /\ tocv.pc = "off"
    /\ \E nodes \in LinkBodies : TocScanOn(nodes)
    /\ tocUnchanged

NextLinks ==
    \/ LinkScan
    \/ TocDestroy
    \/ TocMove
    \/ TocLink
    \/ TocLinksEnd

SpecLinks == InitConv /\ [][NextLinks]_vars

\* ------------------------------------------------------------------------
\* construct_html_sections(): the body fragment, the header bar, and then
\* the table of contents
\* ------------------------------------------------------------------------

YML_KEY_BREADCRUMBS == "breadcrumbs"
YML_KEY_HYPERLINK == "hyperlink"
YML_KEY_HTML == "html"
YML_KEY_TEXT == "text"
YML_KEY_EMPTY == "empty"
YML_LEFT == "left"

\* the keys the dispatch on a section's contents tests, in its order
ContentsKeys == <<YML_KEY_BREADCRUMBS, YML_KEY_HYPERLINK, YML_KEY_HTML,
                  YML_KEY_TEXT, YML_KEY_EMPTY>>

\* a section of the header bar: the value of contents_alignment ("absent"
\* when the section has no such key) and the keys under contents
Section(alignment, contents) ==
    [contents_alignment |-> alignment, contents |-> contents]

SectionKinds ==
    { Section("absent", {YML_KEY_TEXT}),
      Section("center", {YML_KEY_BREADCRUMBS}),
      Section("right", {YML_KEY_HYPERLINK}),
      Section(YML_LEFT, {YML_KEY_HTML}),
      Section("absent", {YML_KEY_EMPTY}),
      Section("right", {YML_KEY_TEXT, YML_KEY_HTML}),
      Section("center", {"url"}),
      Section("absent", {}) }

HeaderBar(sections) == [present |-> TRUE, sections |-> sections]

\* loaded_parms: no header bar, or one of at most MaxSections sections
HeaderBars ==
    {NoHeaderBar} \cup
    {HeaderBar(ss) : ss \in UNION {[1..n -> SectionKinds] : n \in 0..MaxSections}}

\* the children of <body>
SectBodies == UNION {[1..n -> TocNodes] : n \in 0..MaxKids}

\* the calls that are checked: every body with two header bars, and every
\* header bar with two bodies
SectInputs ==
    (SectBodies \X {NoHeaderBar, HeaderBar(<<Section("center", {YML_KEY_TEXT})>>)})
    \cup
    ({<< >>, <<P(<< >>, <<"sp">>), P(<<"MsoToc1">>, <<"a">>)>>} \X HeaderBars)

\* a piece of header_bar_table: a tag with its text-align value, or the HTML
\* of a section's contents with the key it was made from
Tok(tag, arg) == [tag |-> tag, arg |-> arg]

\* body_contents_list = body.contents; the loop bound len(body_contents_list)
\* is evaluated once
SectStartOn(nodes, header_bar) ==
    sectv' = [SectIdle EXCEPT
                !.pc = "move",
                !.nodes = nodes,
                !.body = Indices(Len(nodes)),
                !.n = Len(nodes),
                !.header_bar = header_bar]

SectStart ==
    /\ sectv.pc = "off"
    /\ \E in \in SectInputs : SectStartOn(in[1], in[2])
    /\ UNCHANGED <<engineVars, driverVars, tocv, whitev>>

\* body_inner_html.append(x) where x is a child of body: its copy stays
AppendCopy(body, fragment, x) ==
    [body |-> body, fragment |-> Append(fragment, x)]

\* body_inner_html.append(x) where x is a child of body: x leaves body
AppendNode(body, fragment, x) ==
    [body |-> Without(body, {x}), fragment |-> Append(fragment, x)]

\* one iteration: body_inner_html.append(body_contents_list[0])
SplitMove ==
    /\ sectv.pc = "move"
    /\ sectv.i < sectv.n
    /\ LET after == AppendNode(sectv.body, sectv.body_inner_html, sectv.body[1])
       IN  sectv' = [sectv EXCEPT
                       !.body = after.body,
                       !.body_inner_html = after.fragment,
                       !.i = @ + 1]
    /\ UNCHANGED <<engineVars, driverVars, tocv, whitev>>

\* the loop ends; the closing tag is taken off the tags of the empty <body>
SplitEnd ==
    /\ sectv.pc = "move"
    /\ sectv.i = sectv.n
    /\ sectv' = [sectv EXCEPT !.pc = "header"]
    /\ UNCHANGED <<engineVars, driverVars, tocv, whitev>>

\* header_bar_table = ""; with a header bar, the opening tags of the table
\* and of its row; with none, the slot gets the empty string
HeaderOpen ==
    /\ sectv.pc = "header"
    /\ sectv' = IF sectv.header_bar.present
                THEN [sectv EXCEPT
                        !.header_bar_table = <<Tok("table", ""), Tok("tr", "")>>,
                        !.section = 1,
                        !.pc = "cells"]
                ELSE [sectv EXCEPT
                        !.slot = [written |-> TRUE, value |-> << >>],
                        !.pc = "toc"]
    /\ UNCHANGED <<engineVars, driverVars, tocv, whitev>>

\* a faulty variant: every cell is aligned left
CellAlignmentLeft(section) == YML_LEFT

\* table_cell_alignment: the section's contents_alignment, else "left"

CellAlignment(section) ==
    IF section.contents_alignment # "absent"
    THEN section.contents_alignment ELSE YML_LEFT

\* the first key of the if/elif chain that contents holds, "" when none
RECURSIVE FirstKey(_, _)
FirstKey(contents, k) ==
    IF k > Len(ContentsKeys) THEN ""
    ELSE IF ContentsKeys[k] \in contents THEN ContentsKeys[k]
    ELSE FirstKey(contents, k + 1)

\* a faulty variant: contents without a known key are taken as "empty"
ContentsTypeLenient(contents) ==
    IF FirstKey(contents, 1) = "" THEN YML_KEY_EMPTY ELSE FirstKey(contents, 1)

ContentsType(contents) == FirstKey(contents, 1)

\* the HTML a section's contents add to the cell: nothing for "empty"
ContentsHtml(type) ==
    IF type = YML_KEY_EMPTY THEN << >> ELSE <<Tok("contents", type)>>

\* one iteration of the loop over the sections: the cell of the section, or
\* return 1, None when the contents have no known key
HeaderCell ==
    /\ sectv.pc = "cells"
    /\ sectv.section <= Len(sectv.header_bar.sections)
    /\ LET section == sectv.header_bar.sections[sectv.section]
           type == ContentsType(section.contents)
           td == <<Tok("td", CellAlignment(section))>>
       IN  sectv' = IF type = ""
                    THEN [sectv EXCEPT
                            !.header_bar_table = @ \o td,
                            !.ret = [code |-> 1, value |-> "None"],
                            !.pc = "returned"]
                    ELSE [sectv EXCEPT
                            !.header_bar_table =
                                @ \o td \o ContentsHtml(type) \o <<Tok("/td", "")>>,
                            !.section = @ + 1]
    /\ UNCHANGED <<engineVars, driverVars, tocv, whitev>>

\* after the last section: the closing tags, and the slot is written
HeaderClose ==
    /\ sectv.pc = "cells"
    /\ sectv.section > Len(sectv.header_bar.sections)
    /\ LET table == sectv.header_bar_table \o <<Tok("/tr", ""), Tok("/table", "")>>
       IN  sectv' = [sectv EXCEPT
                       !.header_bar_table = table,
                       !.slot = [written |-> TRUE, value |-> table],
                       !.pc = "toc"]
    /\ UNCHANGED <<engineVars, driverVars, tocv, whitev>>

\* the extraction of the table of contents starts, on body_inner_html
SectToc ==
    /\ sectv.pc = "toc"
    /\ tocv.pc = "off"
    /\ TocScanOn([k \in DOMAIN sectv.body_inner_html |->
                     sectv.nodes[sectv.body_inner_html[k]]])
    /\ sectv' = [sectv EXCEPT !.pc = "extract"]
    /\ UNCHANGED <<engineVars, driverVars, whitev>>

\* return 0, body_inner_html
SectReturn ==
    /\ sectv.pc = "extract"
    /\ tocv.pc = "done"
    /\ sectv' = [sectv EXCEPT
                   !.ret = [code |-> 0, value |-> "body_inner_html"],
                   !.pc = "returned"]
    /\ UNCHANGED <<engineVars, driverVars, tocv, whitev>>

NextSect ==
    \/ SectStart
    \/ SplitMove
    \/ SplitEnd
    \/ HeaderOpen
    \/ HeaderCell
    \/ HeaderClose
    \/ SectToc
    \/ TocDestroy
    \/ TocMove
    \/ TocLink
    \/ TocLinksEnd
    \/ SectReturn

SpecSect == InitConv /\ [][NextSect]_vars

\* ------------------------------------------------------------------------
\* One web page: construct_html_sections() and then fix_word_html() on the
\* fragment it returned
\* ------------------------------------------------------------------------

\* the children of <body> a page is made of
MaxPage == 3

\* A child of <body> with what both functions read of it: kind, class and
\* .string for the table of contents, and for the list passes the paragraph
\* with its class group ("list" when a class name is one of the Word list
\* styles), style, elements and strings.
PageNode(node, para) ==
    [kind |-> node.kind, class |-> node.class, string |-> node.string, para |-> para]

PageNodes ==
    { PageNode(P(<<"MsoToc1">>, <<"a">>),  Para("other", ListStyle, PlainText)),
      PageNode(P(<<"MsoNormal">>, <<"sp">>), Para("list", ListStyle, PlainText)),
      PageNode(P(<<"MsoNormal">>, None),
               Para("list", ListStyle, BulletItem("Fsym", "dot"))),
      PageNode(P(<<"MsoNormal">>, None),
               Para("list", ListStyle, BulletItem("Fwing", "sq"))),
      PageNode(P(<<"MsoNormal">>, None),
               Para("list", ListStyle, BulletItem("Fcour", "o"))),
      PageNode(P(<<"MsoNormal">>, None), Para("list", <<"Tcm">>, OrderedItemPre)),
      PageNode(P(<< >>, None), Para("other", NoStyle, WithSpan(<<"W">>))),
      PageNode(S(<<"NL">>), Para("none", NoStyle, PlainText)) }

PageBodies == UNION {[1..n -> PageNodes] : n \in 0..MaxPage}

\* construct_html_sections(loaded_parms, jinja_template_variables, head, body)
PageStart ==
    /\ sectv.pc = "off"
    /\ \E nodes \in PageBodies :
          SectStartOn(nodes, HeaderBar(<<Section("center", {YML_KEY_TEXT})>>))
    /\ UNCHANGED <<engineVars, driverVars, tocv, whitev>>

\* the paragraphs of the fragment that construct_html_sections() returned,
\* in document order: indices into tocv.nodes
FragmentParagraphs ==
    SelectSeq(tocv.body, LAMBDA id : tocv.nodes[id].kind = "p")

\* fix_word_html(loaded_parms, jinja_template_variables, body_inner_html,
\* num_warning_messages), called after construct_html_sections() returned 0
PageFix ==
    /\ pc = "idle"
    /\ sectv.pc = "returned"
    /\ sectv.ret.code = 0
    /\ \E w \in WarningsIn :
          fix_word_html([k \in DOMAIN FragmentParagraphs |->
                            tocv.nodes[FragmentParagraphs[k]].para],
                        << >>, "absent", w)
    /\ UNCHANGED <<driverVars, tocv, whitev, sectv>>

NextPage ==
    \/ PageStart
    \/ SplitMove
    \/ SplitEnd
    \/ HeaderOpen
    \/ HeaderCell
    \/ HeaderClose
    \/ SectToc
    \/ TocDestroy
    \/ TocMove
    \/ TocLink
    \/ TocLinksEnd
    \/ SectReturn
    \/ PageFix
    \/ (EngineStep /\ UNCHANGED <<driverVars, tocv, whitev, sectv>>)

SpecPage == InitConv /\ [][NextPage]_vars

\* ------------------------------------------------------------------------
\* Properties of one conversion (SpecConv)
\* ------------------------------------------------------------------------

\* the list passes are running or have just ended
InListPasses == pc \in {"bullet", "ordered"} \/ (pc = "white" /\ idx = 1)

\* the body was serialized
Serialized == generated_html # NoHtml

NoMarkerIn(doc) == CountText(doc, {"raw_dot", "raw_sq", "raw_six"}) = 0

\* the raw markers of a descriptor that the four passes inserted, counted
\* from the record of which pass fixed which paragraph
Inserted(k) ==
    IF k = FIX_KEY_SIX_NBSPS THEN Cardinality({i \in DOMAIN fixedBy : fixedBy[i] # {}})
    ELSE IF k = FIX_KEY_SOLID_DOT_BULLET
    THEN Cardinality({i \in DOMAIN fixedBy : "dot" \in fixedBy[i]})
    ELSE IF k = FIX_KEY_SOLID_SQUARE_BULLET
    THEN Cardinality({i \in DOMAIN fixedBy : "square" \in fixedBy[i]})
    ELSE 0

\* the raw markers of a descriptor found in the serialized body
FoundInHtml(k) == IF stripped[k] # -1 THEN stripped[k] ELSE generated_html[k]

\* C2: in a conversion that starts with all counters at 0, on a body without
\* a raw marker of its own, the serialized body holds for every descriptor
\* with an encode string as many raw markers as the passes inserted, which
\* is the descriptor's counter; the letter-o counter is 0; and no error is
\* returned once the body is serialized (the count-mismatch error is not
\* raised).
C2_StrippedEqualsInserted ==
    (Serialized /\ NoMarkerIn(orig.paras))
    => /\ \A k \in KeySet :
            /\ numEncoded[k] = Inserted(k)
            /\ (Encode[k] # "" => FoundInHtml(k) = Inserted(k))
       /\ ret.code # 1

C2_Witness ==
    /\ pc = "returned"
    /\ ret.code = 0
    /\ NoMarkerIn(orig.paras)
    /\ stripped[FIX_KEY_SIX_NBSPS] = 2
    /\ stripped[FIX_KEY_SOLID_DOT_BULLET] = 1
    /\ \E i \in DOMAIN fixedBy : "ordered" \in fixedBy[i]

\* a paragraph that the candidate scan does not select, said without the scan
NotACandidate(p) ==
    \/ p.cls # "list"
    \/ p.style = NoStyle
    \/ \A j \in DOMAIN p.style : p.style[j] \notin TextIndentSymbols

\* C4: while the three bullet passes and the ordered-list pass run, and when
\* they have ended, every paragraph that is not a list-item candidate is what
\* it was when the engine started: class, style, elements and strings.
C4_NonCandidatesUnchanged ==
    InListPasses =>
        \A i \in DOMAIN paras :
            NotACandidate(orig.paras[i]) => paras[i] = orig.paras[i]

C4_Witness ==
    /\ pc = "white"
    /\ idx = 1
    /\ \E i, j \in DOMAIN paras :
          /\ orig.paras[i] = Para("other", ListStyle, BulletItem("Fsym", "dot"))
          /\ paras[i] = orig.paras[i]
          /\ fixedBy[j] = {"dot"}

LaterPasses ==
    [dot |-> {"square", "o", "ordered"}, square |-> {"o", "ordered"},
     o |-> {"ordered"}, ordered |-> {}]

\* the passes that have ended
EndedPasses ==
    IF pc = "bullet" THEN {BulletPasses[n].name : n \in 1..(passNo - 1)}
    ELSE IF pc = "idle" THEN {}
    ELSE {"dot", "square", "o"}

InPool(i) == \E n \in DOMAIN word_list_item_list : word_list_item_list[n] = i

\* C5: a paragraph is fixed by at most one pass; a paragraph fixed by a
\* bullet pass is out of the pool once that pass has ended, and no later
\* pass examines it.
C5_FixedByAtMostOne ==
    \A i \in DOMAIN fixedBy :
        /\ Cardinality(fixedBy[i]) <= 1
        /\ \A f \in fixedBy[i] :
              /\ examined[i] \cap LaterPasses[f] = {}
              /\ (f \in EndedPasses => ~InPool(i))

C5_Witness ==
    /\ pc = "ordered"
    /\ idx > 1
    /\ \E i, j \in DOMAIN fixedBy :
          /\ fixedBy[i] = {"dot"}
          /\ examined[i] = {"dot"}
          /\ "ordered" \in examined[j]

\* the paragraph has pre-symbol spaces, a symbol and post-symbol spaces
\* under one parent
HasPreSymbolSpaces(p) == p.strs = OrderedItemPre.strs /\ p.els = OrderedItemPre.els

\* the style is the old one with the text-indent declaration at position k
\* set to -.25in and nothing else changed
RewrittenAt(old, new, k) ==
    /\ old[k] \in TextIndentDecls
    /\ Len(new) = Len(old)
    /\ \A j \in DOMAIN old : new[j] = IF j = k THEN "Tfix" ELSE old[j]

\* the ordered-list pass stopped at the paragraph with the fatal error of the
\* text-indent rewrite
StoppedAt(i) ==
    /\ pc = "returned"
    /\ ret.code = 1
    /\ "ordered" \notin fixedBy[i]
    /\ idx \in DOMAIN word_list_item_list
    /\ word_list_item_list[idx] = i

\* a candidate that the ordered-list loop has examined and that passes its
\* tests
PassesOrderedChecks(i) ==
    "ordered" \in examined[i] /\ OrderedChecks(orig.paras[i]).ok

OrderedPassEnded ==
    \/ pc \in {"white", "decode"}
    \/ (pc = "returned" /\ (ret.code = 0 \/ Serialized))

\* a candidate that the ordered-list loop has examined, that passes its tests,
\* and whose text-indent unit is not "in"
NotInInches(i) ==
    /\ PassesOrderedChecks(i)
    /\ TextIndentUnit[OrderedChecks(orig.paras[i]).decl] # "in"

UnitsWarnings == SelectSeq(messages, LAMBDA m : m.kind = "units")

C1_CountersZeroAtStart ==
    pc # "idle" => \A k \in KeySet : startEncoded[k] = 0

\* the second conversion of a batch starts with a counter left by the first
\* and fails on a document with nothing to fix
C1_Witness ==
    /\ file_count = 2
    /\ startEncoded[FIX_KEY_SIX_NBSPS] = 1
    /\ orig.paras = <<Para("other", NoStyle, PlainText)>>
    /\ pc = "returned"
    /\ ret.code = 1

\* ------------------------------------------------------------------------
\* Properties of the white-text pass (SpecWhite)
\* ------------------------------------------------------------------------

\* a run of the pass has completed without a fatal error
WhiteRunDone == pc = "decode" /\ whitev.runs >= 1

\* the spans of the running pass that the loop is done with
Processed ==
    IF pc = "decode" THEN DOMAIN spans
    ELSE IF pc \in {"white", "returned"} THEN 1..(idx - 1)
    ELSE {}

\* the declarations and line breaks of a style, without the semicolons
Tokens(style) == SelectSeq(style, LAMBDA t : t # ";")

\* new is old with one color:white taken out and every other declaration kept
OneWhiteRemoved(old, new) ==
    \E k \in DOMAIN old :
        /\ old[k] = "W"
        /\ Tokens(new) = Tokens(SubSeq(old, 1, k - 1) \o SubSeq(old, k + 1, Len(old)))

\* C8: with the policy removeAll, a run of the white-text pass that completes
\* leaves no span whose style has a color:white declaration, and a second run
\* finds no span and leaves the body as the first run left it.
C8_RemoveAllIdempotent ==
    (WhiteRunDone /\ KeyWhiteTextValue(config) = YML_REMOVE_ALL)
    => /\ FindWhiteSpans(paras, loose) = << >>
       /\ whitev.runs = 2 =>
             /\ spans = << >>
             /\ paras = whitev.body.paras
             /\ loose = whitev.body.loose

\* the first run turned color:white;color:white into color:white, and the
\* second run deleted the attribute
C8_Witness ==
    /\ WhiteRunDone
    /\ whitev.runs = 2
    /\ config = YML_REMOVE_ALL
    /\ whitev.body.loose = << <<"W">> >>
    /\ loose = <<NoStyle>>

C10_WhiteCounts ==
    WhiteRunDone =>
        /\ num_spans_under_paragraph + num_spans_not_under_paragraph = Len(spans)
        /\ num_spans_under_paragraph
             = Cardinality({n \in DOMAIN spans : spans[n].p # 0})
        /\ num_warning_messages = whitev.w + (IF Len(spans) > 0 THEN 1 ELSE 0)

C10_Witness ==
    /\ WhiteRunDone
    /\ config = YML_DO_NOT_REMOVE
    /\ num_spans_under_paragraph = 1
    /\ num_spans_not_under_paragraph = 1
    /\ whitev.w = 1
    /\ num_warning_messages = 2

\* ------------------------------------------------------------------------
\* Properties of the extraction of the table of contents (SpecToc)
\* ------------------------------------------------------------------------

\* the paragraph has text, all of it whitespace
WhitespaceOnly(node) ==
    /\ node.string # None
    /\ \A k \in DOMAIN node.string : node.string[k] \in Whitespace

\* the paragraph has exactly one class, MsoToc followed by a digit 1-9
OneTocClass(node) ==
    /\ Len(node.class) = 1
    /\ node.class[1] \in {"MsoToc1", "MsoToc2", "MsoToc3", "MsoToc4", "MsoToc5",
                          "MsoToc6", "MsoToc7", "MsoToc8", "MsoToc9"}

\* the paragraphs of the body, in document order
ParagraphIds ==
    SelectSeq(Indices(Len(tocv.nodes)), LAMBDA i : tocv.nodes[i].kind = "p")

\* the paragraphs of the body are n whitespace-only paragraphs and no more,
\* then m paragraphs with one TOC class, then a paragraph that has not
Shape(n, m) ==
    /\ Len(ParagraphIds) > n + m
    /\ \A j \in 1..n : WhitespaceOnly(tocv.nodes[ParagraphIds[j]])
    /\ ~WhitespaceOnly(tocv.nodes[ParagraphIds[n + 1]])
    /\ \A j \in (n + 1)..(n + m) : OneTocClass(tocv.nodes[ParagraphIds[j]])
    /\ ~OneTocClass(tocv.nodes[ParagraphIds[n + m + 1]])

\* the extraction has moved the m paragraphs after the first n, in order,
\* and destroyed the first n
Extracted(n, m) ==
    /\ SelectSeq(tocv.soup_toc, LAMBDA x : tocv.nodes[x].kind = "p")
         = SubSeq(ParagraphIds, n + 1, n + m)
    /\ tocv.destroyed = {ParagraphIds[j] : j \in 1..n}
    /\ \A j \in 1..n :
          /\ ParagraphIds[j] \notin {tocv.body[k] : k \in DOMAIN tocv.body}
          /\ ParagraphIds[j] \notin {tocv.soup_toc[k] : k \in DOMAIN tocv.soup_toc}
    /\ \A j \in (n + 1)..(n + m) :
          ParagraphIds[j] \notin {tocv.body[k] : k \in DOMAIN tocv.body}

SplitDone == sectv.pc \notin {"off", "move"}

\* C11: when the move loop of the structural splitter has ended, the
\* original <body> has no children left and the body fragment holds exactly
\* the k children the body had, in their original order; while the loop runs
\* every child is in exactly one of the two trees.
C11_SplitMovesAll ==
    /\ sectv.pc = "move" =>
          sectv.body_inner_html \o sectv.body = Indices(Len(sectv.nodes))
    /\ SplitDone =>
          /\ sectv.body = << >>
          /\ sectv.body_inner_html = Indices(Len(sectv.nodes))

C11_Witness ==
    /\ sectv.pc = "header"
    /\ sectv.nodes = <<P(<<"MsoToc1">>, <<"a">>), S(<<"NL">>)>>
    /\ sectv.body_inner_html = <<1, 2>>
    /\ sectv.i = 2

\* the header bar of the call has sections, and the loop over them ended
HeaderBarDone == sectv.header_bar.present /\ sectv.slot.written

\* the tags of a piece of markup, without the contents of the cells
Tags(markup) == SelectSeq(markup, LAMBDA t : t.tag # "contents")

\* how many tags of a kind the markup has
NumTags(markup, tag) == Cardinality({k \in DOMAIN markup : markup[k].tag = tag})

\* C14: with a header bar in the configuration, the markup written to the
\* slot header_bar is one table with exactly one row, and the row has exactly
\* one cell for every section, in the order of the configuration; the
\* text-align value of a cell is the contents_alignment of its section, or
\* left when the section has none.
C14_HeaderBarTable ==
    HeaderBarDone =>
        LET sections == sectv.header_bar.sections
            n    == Len(sections)
            tags == Tags(sectv.slot.value)
        IN  /\ NumTags(tags, "table") = 1 /\ NumTags(tags, "/table") = 1
            /\ NumTags(tags, "tr") = 1 /\ NumTags(tags, "/tr") = 1
            /\ NumTags(tags, "td") = n /\ NumTags(tags, "/td") = n
            /\ Len(tags) = 2 * n + 4
            /\ tags[1] = Tok("table", "") /\ tags[2] = Tok("tr", "")
            /\ tags[2 * n + 3] = Tok("/tr", "") /\ tags[2 * n + 4] = Tok("/table", "")
            /\ \A k \in 1..n :
                  /\ tags[2 * k + 1].tag = "td"
                  /\ tags[2 * k + 1].arg =
                        IF sections[k].contents_alignment = "absent" THEN "left"
                        ELSE sections[k].contents_alignment
                  /\ tags[2 * k + 2] = Tok("/td", "")

C14_Witness ==
    /\ HeaderBarDone
    /\ sectv.header_bar.sections =
          <<Section("absent", {YML_KEY_TEXT}), Section("right", {YML_KEY_HYPERLINK})>>
    /\ sectv.slot.value =
          <<Tok("table", ""), Tok("tr", ""),
            Tok("td", "left"), Tok("contents", YML_KEY_TEXT), Tok("/td", ""),
            Tok("td", "right"), Tok("contents", YML_KEY_HYPERLINK), Tok("/td", ""),
            Tok("/tr", ""), Tok("/table", "")>>

\* the contents of the section have none of the five known keys
UnknownContents(section) ==
    section.contents \cap {"breadcrumbs", "hyperlink", "html", "text", "empty"} = {}

\* construct_html_sections returned 1
SectReturnedError == sectv.pc = "returned" /\ sectv.ret.code = 1

\* C15: if the contents of a section of the header bar have none of the keys
\* breadcrumbs, hyperlink, html, text and empty, construct_html_sections
\* returns (1, None), and it neither writes the slot header_bar nor runs the
\* TOC extraction; it returns 1 from the header bar for no other reason.
C15_UnknownContentsFatal ==
    LET sections == sectv.header_bar.sections
        unknown  == \E k \in DOMAIN sections : UnknownContents(sections[k])
    IN  /\ (sectv.header_bar.present /\ unknown) =>
              /\ ~sectv.slot.written
              /\ tocv = TocIdle
              /\ sectv.pc \in {"move", "header", "cells", "returned"}
              /\ sectv.pc = "returned" =>
                    sectv.ret = [code |-> 1, value |-> "None"]
        /\ SectReturnedError => (sectv.header_bar.present /\ unknown)

\* the second section is the unknown one: the cell of the first was built,
\* and nothing was written
C15_Witness ==
    /\ SectReturnedError
    /\ sectv.ret.value = "None"
    /\ sectv.header_bar.sections =
          <<Section("center", {YML_KEY_BREADCRUMBS}), Section("center", {"url"})>>
    /\ sectv.section = 2
    /\ Len(sectv.header_bar_table) = 6
    /\ ~sectv.slot.written
    /\ tocv.pc = "off"
    /\ sectv.body_inner_html = <<1, 2>>

\* ------------------------------------------------------------------------
\* Properties of the error returns of fix_word_html (SpecConv)
\* ------------------------------------------------------------------------

\* jinja_template_variables["document_text"] was written
SlotWritten == document_text # NoHtml

\* fix_word_html returned 1
ReturnedError == pc = "returned" /\ ret.code = 1

\* C12: whenever fix_word_html returns 1 the slot document_text was not
\* written by the call; the slot is written only when the call returns 0,
\* after the loop over the descriptors ended with every inserted marker
\* stripped from the text that is written.
C12_SlotOnlyOnSuccess ==
    /\ ReturnedError => ~SlotWritten
    /\ SlotWritten =>
          /\ pc = "returned" /\ ret.code = 0
          /\ idx > Len(Keys)
          /\ document_text = generated_html
          /\ \A key \in KeySet :
                numEncoded[key] # 0 =>
                    stripped[key] = numEncoded[key] /\ document_text[key] = 0

\* the three fatal errors: the text-indent rewrite, the removal of
\* color:white, and the count of the markers
IndentError ==
    /\ ReturnedError
    /\ orig.paras = <<Para("list", <<"Tcm", ";", "X", ";", "Tin">>, OrderedItemPre)>>

WhiteError ==
    /\ ReturnedError
    /\ config = YML_REMOVE_ALL
    /\ orig.paras = <<Para("other", NoStyle, WithSpan(<<"W", "NL", "W">>))>>

MarkerError ==
    /\ ReturnedError
    /\ orig.paras = <<Para("list", ListStyle, BulletItem("Fsym", "dot")),
                Para("other", NoStyle, WithMarker)>>
    /\ generated_html # NoHtml

C12_Witness == MarkerError /\ ~SlotWritten

\* ------------------------------------------------------------------------
\* Properties of the batch run (SpecBatch)
\* ------------------------------------------------------------------------

\* the loop over the files has ended
BatchEnded == pc = "idle" /\ file_count = numFiles

\* the number of the files whose conversion returned code
RECURSIVE CountOf(_, _)
CountOf(values, code) ==
    IF values = << >> THEN 0
    ELSE (IF Head(values) = code THEN 1 ELSE 0) + CountOf(Tail(values), code)

EmptyRun == {tocv.empty_paragraphs[k] : k \in DOMAIN tocv.empty_paragraphs}

\* C16: the TOC extraction puts a leading paragraph in the run of the empty
\* paragraphs, and destroys it, only if the whole text of the paragraph is
\* whitespace; a paragraph whose text has a character that is not
\* whitespace is never in that run.
C16_EmptyRunIsWhitespace ==
    \A id \in EmptyRun \cup tocv.destroyed : WhitespaceOnly(tocv.nodes[id])

C16_Witness ==
    /\ tocv.pc = "done"
    /\ tocv.nodes = <<P(<< >>, <<"NL", "a">>), P(<<"MsoToc1">>, <<"a">>)>>
    /\ tocv.empty_paragraphs = <<1>>
    /\ tocv.destroyed = {1}
    /\ tocv.soup_toc = <<2>>

\* the paragraphs that were moved to soup_toc, in order
MovedParagraphs == SelectSeq(tocv.soup_toc, LAMBDA x : tocv.nodes[x].kind = "p")

\* the longest run of paragraphs with one TOC class that starts right after
\* the first n paragraphs
TocRunAfter(n) ==
    LET m == CHOOSE m \in 0..(Len(ParagraphIds) - n) :
                 /\ \A j \in (n + 1)..(n + m) : OneTocClass(tocv.nodes[ParagraphIds[j]])
                 /\ n + m < Len(ParagraphIds) =>
                        ~OneTocClass(tocv.nodes[ParagraphIds[n + m + 1]])
    IN  SubSeq(ParagraphIds, n + 1, n + m)

\* how many paragraphs at the start of the body are whitespace only
NumLeadingWhitespace ==
    CHOOSE n \in 0..Len(ParagraphIds) :
        /\ \A j \in 1..n : WhitespaceOnly(tocv.nodes[ParagraphIds[j]])
        /\ n < Len(ParagraphIds) => ~WhitespaceOnly(tocv.nodes[ParagraphIds[n + 1]])

\* the TOC run is the longest run after the first n paragraphs, and when the
\* extraction is done no other paragraph was moved
TocRunIs(n) ==
    /\ tocv.pc # "off" => tocv.toc_paragraphs = TocRunAfter(n)
    /\ tocv.pc = "done" => MovedParagraphs = TocRunAfter(n)

\* C17: the collected TOC run is the longest contiguous run of paragraphs
\* with exactly one class MsoToc1..MsoToc9 that starts right after the
\* leading whitespace-only paragraphs; it stops at the first paragraph with
\* no class, several classes or another class, and no paragraph after that
\* one is extracted.
C17_TocRunAsStated == TocRunIs(NumLeadingWhitespace)

\* the same with the run starting right after the paragraphs the first loop
\* collected
C17_StopRule == TocRunIs(Len(tocv.empty_paragraphs))

C17_Witness ==
    /\ tocv.pc = "done"
    /\ tocv.nodes = <<P(<<"MsoToc2">>, <<"a", "NL">>), P(<<"MsoToc1">>, <<"a">>),
                      P(<< >>, <<"a">>)>>
    /\ NumLeadingWhitespace = 0
    /\ TocRunAfter(0) = <<1, 2>>
    /\ tocv.toc_paragraphs = <<2>>
    /\ tocv.destroyed = {1}

\* the stop rule at work: a TOC paragraph after the stopping paragraph stays
C17_StopWitness ==
    /\ tocv.pc = "done"
    /\ tocv.nodes = <<P(<< >>, <<"sp">>), P(<<"MsoToc1">>, <<"a">>),
                      P(<<"MsoToc1", "MsoNormal">>, <<"a">>), P(<<"MsoToc1">>, <<"a">>)>>
    /\ tocv.soup_toc = <<2>>
    /\ tocv.body = <<3, 4>>

\* ------------------------------------------------------------------------
\* Properties of the fatal errors of the two rewrites of a style
\* ------------------------------------------------------------------------

\* C18: whenever a candidate's style passes the text-indent test of the
\* ordered-list pass, the rewrite of the text-indent declaration matches
\* exactly once: the pass never stops at such a candidate with the fatal
\* error.
C18_RewriteNeverFatal ==
    \A i \in DOMAIN examined :
        PassesOrderedChecks(i)
        => /\ RewriteTextIndent(orig.paras[i].style).n = 1
           /\ ~StoppedAt(i)

C18_Witness ==
    \E i \in DOMAIN examined :
        /\ PassesOrderedChecks(i)
        /\ orig.paras[i].style = <<"Tcm", ";", "X", ";", "Tin">>
        /\ RewriteTextIndent(orig.paras[i].style).n = 2
        /\ StoppedAt(i)
        /\ ~SlotWritten

\* the position of the first semicolon of a style, 0 when it has none
FirstSemicolon(style) ==
    IF \E k \in DOMAIN style : style[k] = ";"
    THEN CHOOSE k \in DOMAIN style :
             style[k] = ";" /\ \A j \in 1..(k - 1) : style[j] # ";"
    ELSE 0

RECURSIVE Declarations(_)
\* the semicolon-delimited declarations of a style, in order; the symbols
\* between two semicolons are one declaration
Declarations(style) ==
    LET k == FirstSemicolon(style)
    IN  IF k = 0 THEN <<style>>
        ELSE <<SubSeq(style, 1, k - 1)>>
             \o Declarations(SubSeq(style, k + 1, Len(style)))

\* the declarations that are not empty (a style may end with a semicolon)
NonEmpty(decls) == SelectSeq(decls, LAMBDA d : d # << >>)

\* new has the declarations of old but the k-th, unchanged and in order
DeclarationRemoved(old, new, k) ==
    LET ds == Declarations(old)
    IN  /\ k \in DOMAIN ds
        /\ ds[k] = <<"W">>
        /\ NonEmpty(Declarations(new)) =
               NonEmpty(SubSeq(ds, 1, k - 1) \o SubSeq(ds, k + 1, Len(ds)))

\* C19: when the white-text pass strips a span whose style has other
\* declarations besides a declaration color:white, the new style is the old
\* sequence of semicolon-delimited declarations with color:white deleted:
\* every other declaration is unchanged, in the same order and still
\* separated from its neighbours, wherever color:white stood.
C19_OnlyWhiteRemoved ==
    \A n \in Processed :
        LET old == StyleOf(whitev.body.paras, whitev.body.loose, spans[n])
            new == StyleOf(paras, loose, spans[n])
        IN  (/\ whitev.runs >= 1
             /\ RemovalRequired(KeyWhiteTextValue(config), spans[n].p # 0)
             /\ old # <<"W">>
             /\ \E k \in DOMAIN Declarations(old) : Declarations(old)[k] = <<"W">>)
            => /\ new # NoStyle
               /\ \E k \in DOMAIN Declarations(old) : DeclarationRemoved(old, new, k)

\* font-size:12pt;color:white;font-family:Arial has become
\* font-size:12ptfont-family:Arial
C19_Witness ==
    /\ WhiteRunDone
    /\ whitev.runs = 1
    /\ config = YML_REMOVE_ALL
    /\ whitev.body.loose = << <<"X", ";", "W", ";", "X">> >>
    /\ loose = << <<"X", "X">> >>
    /\ Declarations(loose[1]) = << <<"X", "X">> >>

\* color:white first or last is taken out with its one separator
C19_EdgeWitness ==
    /\ WhiteRunDone
    /\ whitev.runs = 1
    /\ config = YML_REMOVE_ALL
    /\ whitev.body.loose = << <<"W", ";", "X", ";", "X">> >>
    /\ loose = << <<"X", ";", "X">> >>

\* the same claim for the styles where color:white is not between two other
\* declarations
C19_AtTheEdges ==
    \A n \in Processed :
        LET old == StyleOf(whitev.body.paras, whitev.body.loose, spans[n])
            new == StyleOf(paras, loose, spans[n])
        IN  (/\ whitev.runs >= 1
             /\ RemovalRequired(KeyWhiteTextValue(config), spans[n].p # 0)
             /\ old # <<"W">>
             /\ \E k \in DOMAIN Declarations(old) : Declarations(old)[k] = <<"W">>
             /\ ~\E k \in 2..(Len(Declarations(old)) - 1) :
                    /\ Declarations(old)[k] = <<"W">>
                    /\ Declarations(old)[k - 1] # << >>
                    /\ Declarations(old)[k + 1] # << >>)
            => /\ new # NoStyle
               /\ \E k \in DOMAIN Declarations(old) : DeclarationRemoved(old, new, k)

\* ------------------------------------------------------------------------
\* Properties of the removal of the script tags (SpecConv)
\* ------------------------------------------------------------------------

\* the loop over the descriptors is done with the k-th of them: it went on
\* to the next one, or it returned 1 at this one
\* the body was serialized and the call has not been left
InDecode == Serialized /\ pc \in {"decode", "returned"}

DecodeDoneWith(k) ==
    /\ InDecode
    /\ \/ k < idx
       \/ k = idx /\ ReturnedError

\* the script tags of the descriptor were stripped from the text
StrippingPerformed(key) == stripped[key] # -1

\* C20: for every descriptor the loop after the serialization comes to, the
\* raw markers are stripped if and only if the descriptor's counter is not
\* zero; whenever the number stripped differs from the counter,
\* fix_word_html has returned 1; and when it returns 0, every descriptor
\* with a counter that is not zero was stripped of as many markers as the
\* counter says.
C20_StripAndVerify ==
    /\ \A k \in DOMAIN Keys :
          DecodeDoneWith(k) =>
              (StrippingPerformed(Keys[k]) <=> numEncoded[Keys[k]] # 0)
    /\ \A key \in KeySet :
          (InDecode /\ StrippingPerformed(key) /\ stripped[key] # numEncoded[key])
          => ReturnedError
    /\ (InDecode /\ ret.code = 0) =>
          \A key \in KeySet :
              numEncoded[key] # 0 => stripped[key] = numEncoded[key]

\* a bullet item and a paragraph that holds a six-nbsp marker of its own:
\* the dot markers are stripped and counted right, the square-bullet
\* descriptor is left alone, two six-nbsp markers are stripped where one was
\* inserted, and the call returns 1
C20_Witness ==
    /\ ReturnedError
    /\ InDecode
    /\ orig.paras = <<Para("list", ListStyle, BulletItem("Fsym", "dot")),
                      Para("other", NoStyle, WithMarker)>>
    /\ numEncoded[FIX_KEY_SOLID_DOT_BULLET] = 1
    /\ stripped[FIX_KEY_SOLID_DOT_BULLET] = 1
    /\ numEncoded[FIX_KEY_SOLID_SQUARE_BULLET] = 0
    /\ ~StrippingPerformed(FIX_KEY_SOLID_SQUARE_BULLET)
    /\ numEncoded[FIX_KEY_SIX_NBSPS] = 1
    /\ stripped[FIX_KEY_SIX_NBSPS] = 2

\* a conversion that succeeds after stripping the markers of two descriptors
C20_SuccessWitness ==
    /\ InDecode /\ ret.code = 0
    /\ stripped[FIX_KEY_SOLID_DOT_BULLET] = 1
    /\ stripped[FIX_KEY_SIX_NBSPS] = 1
    /\ ~StrippingPerformed(FIX_KEY_SOLID_SQUARE_BULLET)

\* ------------------------------------------------------------------------
\* Properties of the bullet passes (SpecConv)
\* ------------------------------------------------------------------------

\* string k of the paragraph is the given raw marker, the text of a script
\* element that stands where the string stood
ReplacedByRaw(o, p, k, raw) ==
    /\ p.strs[k].txt = raw
    /\ p.strs[k].par \in DOMAIN p.els
    /\ p.els[p.strs[k].par].tag = "script"
    /\ p.els[p.strs[k].par].par = o.strs[k].par

\* C21: a candidate that a bullet pass examines and that passes the five
\* tests of that pass is fixed by it: its spaces-only text is replaced by the
\* six-nbsp raw marker in every pass, its bullet symbol is replaced by the
\* raw marker of the entity in the solid-dot and solid-square passes and is
\* the same string under the same span in the letter-o pass, and its other
\* strings are the same.
C21_BulletFixed ==
    \A i \in DOMAIN examined : \A n \in DOMAIN BulletPasses :
        LET pass == BulletPasses[n]
            o    == orig.paras[i]
            p    == paras[i]
        IN  (pass.name \in examined[i] /\ BulletChecks(o, pass))
            => /\ pass.name \in fixedBy[i]
               /\ Len(p.strs) = Len(o.strs)
               /\ ReplacedByRaw(o, p, 2, Encode[FIX_KEY_SIX_NBSPS])
               /\ IF pass.key = FIX_KEY_LETTER_O_BULLET
                  THEN p.strs[1] = o.strs[1]
                  ELSE ReplacedByRaw(o, p, 1, Encode[pass.key])
               /\ \A k \in 3..Len(o.strs) : p.strs[k] = o.strs[k]

\* a solid-dot item and a letter-o item of one document, both fixed
C21_Witness ==
    /\ pc = "ordered"
    /\ \E i, j \in DOMAIN fixedBy :
          /\ fixedBy[i] = {"dot"}
          /\ paras[i].strs[1].txt = "raw_dot"
          /\ paras[i].strs[2].txt = "raw_six"
          /\ fixedBy[j] = {"o"}
          /\ paras[j].strs[1] = Str("o", 1)
          /\ paras[j].strs[2].txt = "raw_six"

\* a solid-square item, fixed
C21_SquareWitness ==
    \E i \in DOMAIN fixedBy :
        /\ fixedBy[i] = {"square"}
        /\ paras[i].strs[1].txt = "raw_sq"
        /\ paras[i].strs[2].txt = "raw_six"

\* ------------------------------------------------------------------------
\* Properties of one web page (SpecPage)
\* ------------------------------------------------------------------------

\* the order the claim gives to the list passes
PassOrder == <<"dot", "square", "o", "ordered">>

PassRank(name) == CHOOSE k \in DOMAIN PassOrder : PassOrder[k] = name

\* The stage the conversion is in: 0 not started, 1 body splitting, 2 the
\* header bar, 3 TOC extraction, 4 between the two functions, 5 to 7 the
\* bullet passes solid-dot, solid-square and letter-o, 8 the ordered-list
\* pass, 9 the white-text pass, 10 serialization and raw-marker stripping,
\* 11 returned.
Stage ==
    IF pc = "idle"
    THEN CASE sectv.pc = "off" -> 0
           [] sectv.pc = "move" -> 1
           [] sectv.pc \in {"header", "cells", "toc"} -> 2
           [] sectv.pc = "extract" -> 3
           [] sectv.pc = "returned" -> 4
    ELSE CASE pc = "bullet" -> 4 + PassRank(BulletPasses[passNo].name)
           [] pc = "ordered" -> 8
           [] pc = "white" -> 9
           [] pc = "decode" -> 10
           [] pc = "returned" -> 11

\* the nodes in the TOC fragment
InToc == {tocv.soup_toc[k] : k \in DOMAIN tocv.soup_toc}

\* the candidate pool, as nodes of the fragment
PoolNodes ==
    {FragmentParagraphs[word_list_item_list[k]] : k \in DOMAIN word_list_item_list}

\* what has been done when a stage is reached
StagesComplete ==
    /\ Stage >= 3 => (sectv.body = << >> /\ Len(sectv.body_inner_html) = sectv.n)
    /\ Stage >= 4 => tocv.pc = "done"
    /\ Stage >= 5 => (sectv.ret.code = 0 /\ PoolNodes \cap InToc = {})
    /\ \A i \in DOMAIN examined :
          /\ \A name \in examined[i] : 4 + PassRank(name) <= Stage
          /\ (Stage \in 6..11 /\ IsCandidate(orig.paras[i]))
                => "dot" \in examined[i]
          /\ (Stage \in 8..11 /\ InPool(i)) => {"dot", "square", "o"} \subseteq examined[i]
    /\ (Stage \in {9, 10} \/ (Stage = 11 /\ ret.code = 0))
          => \A i \in DOMAIN examined : InPool(i) => "ordered" \in examined[i]
    /\ Stage <= 9 => ~Serialized
    /\ Stage = 10 => (Serialized /\ idx <= Len(Keys) + 1)

\* C22: the stages of one conversion run in the order body splitting, TOC
\* extraction, candidate discovery, solid-dot, solid-square, letter-o,
\* ordered-list pass, white-text pass, serialization with raw-marker
\* stripping: the stage never goes back, a stage is reached only when the
\* stages before it are complete, and no node of the TOC fragment is in the
\* candidate pool.
C22_StageOrder == [](StagesComplete) /\ [][Stage' >= Stage]_vars

\* a page whose TOC paragraph was moved and whose list items were fixed by
\* two bullet passes, converted to the end
C22_Witness ==
    /\ Stage = 11
    /\ ret.code = 0
    /\ Len(tocv.soup_toc) = 1
    /\ \E i, j \in DOMAIN fixedBy : fixedBy[i] = {"square"} /\ fixedBy[j] = {"dot"} /\ i < j

\* the elements of a sequence
Range(seq) == {seq[k] : k \in DOMAIN seq}

NoDuplicates(seq) == Cardinality(Range(seq)) = Len(seq)

\* the children that <body> had, by their place in it
OriginalChildren == 1..sectv.n

\* the original children that are children of <body> now
InBody == Range(sectv.body)

\* the original children that are in the body fragment now: before the TOC
\* extraction the nodes appended to it, from then on those the extraction
\* has left in it
InFragment ==
    IF tocv.pc = "off" THEN Range(sectv.body_inner_html)
    ELSE {sectv.body_inner_html[k] : k \in Range(tocv.body)}

\* the original children in the TOC fragment
InTocFragment == {sectv.body_inner_html[k] : k \in Range(tocv.soup_toc)}

\* the original children that were destroyed
Destroyed == {sectv.body_inner_html[k] : k \in tocv.destroyed}

\* how many of the four places hold the node
Parents(x) ==
    Cardinality({place \in {"body", "fragment", "toc", "destroyed"} :
        \/ (place = "body" /\ x \in InBody)
        \/ (place = "fragment" /\ x \in InFragment)
        \/ (place = "toc" /\ x \in InTocFragment)
        \/ (place = "destroyed" /\ x \in Destroyed)})

\* C23: while the body is split and the TOC is extracted, and afterwards,
\* every original child of <body> is in exactly one of <body>, the body
\* fragment, the TOC fragment and the destroyed nodes, and is there once; a
\* node of the body fragment is not a child of <body>, a node of the TOC
\* fragment is not in the body fragment; after the TOC extraction none is
\* left in <body>.
C23_OneParent ==
    sectv.pc # "off" =>
        /\ \A x \in OriginalChildren : Parents(x) = 1
        /\ NoDuplicates(sectv.body)
        /\ NoDuplicates(sectv.body_inner_html)
        /\ NoDuplicates(tocv.body)
        /\ NoDuplicates(tocv.soup_toc)
        /\ InBody \cap InFragment = {}
        /\ InTocFragment \cap InFragment = {}
        /\ tocv.pc = "done" => InBody = {}

\* a page with a destroyed paragraph, a TOC paragraph and a paragraph left in
\* the body fragment
C23_Witness ==
    /\ tocv.pc = "done"
    /\ Cardinality(Destroyed) = 1
    /\ Cardinality(InTocFragment) = 1
    /\ Cardinality(InFragment) = 1

\* a TOC paragraph moved with the line break after it
C23_NewlineWitness ==
    /\ tocv.pc = "done"
    /\ Cardinality(InTocFragment) = 2
    /\ \E x \in InTocFragment : sectv.nodes[x].kind = "str"

\* ------------------------------------------------------------------------
\* Properties of the hyperlink styling (SpecLinks)
\* ------------------------------------------------------------------------

\* the paragraphs of the TOC fragment that the loop has dealt with
Styled ==
    IF tocv.pc = "done" THEN Range(TocFragmentParagraphs)
    ELSE IF tocv.pc = "links"
    THEN {TocFragmentParagraphs[k] : k \in 1..(tocv.i - 1)}
    ELSE {}

\* the anchors on the chain of the paragraph's first string
AnchorsOf(id) ==
    {k \in DOMAIN tocv.inner[id].chain : tocv.inner[id].chain[k].name = "a"}

\* anchor k of the paragraph has tocAnchor added once to its class names,
\* which are the names it had (none when it had no class attribute)
TaggedOnce(id, k) ==
    /\ tocv.inner[id].chain[k].class.present
    /\ tocv.inner[id].chain[k].class.names
         = Append(Inner(tocv.nodes[id]).chain[k].class.names, TOC_ANCHOR)

Untouched(id, k) ==
    tocv.inner[id].chain[k].class = Inner(tocv.nodes[id]).chain[k].class

\* the paragraph's first string has an anchor above it, and of its anchors
\* the one nearest to the string is tagged once and the others are as they
\* were
NearestAnchorTagged(id) ==
    /\ tocv.inner[id].has_string
    /\ \E k \in AnchorsOf(id) :
          /\ \A m \in AnchorsOf(id) : k <= m
          /\ TaggedOnce(id, k)
          /\ \A m \in AnchorsOf(id) \ {k} : Untouched(id, m)

TimesCounted(id) ==
    Cardinality({n \in DOMAIN tocv.counted : tocv.counted[n] = id})

\* the paragraph is counted once, and its anchors are as they were
CountedOnce(id) ==
    /\ TimesCounted(id) = 1
    /\ \A m \in AnchorsOf(id) : Untouched(id, m)

\* C24: for every TOC paragraph the hyperlink styling has dealt with, either
\* the anchor nearest to its first string has tocAnchor added once (to a new
\* class list when it had none) and the paragraph is not counted, or the
\* paragraph is counted once as an entry without a hyperlink and no anchor
\* is tagged; the anchors tagged and the count add up to the paragraphs
\* dealt with, and a paragraph not dealt with is neither tagged nor counted.
C24_TaggedOrCounted ==
    /\ \A id \in Styled :
          \/ (NearestAnchorTagged(id) /\ TimesCounted(id) = 0)
          \/ (CountedOnce(id) /\ ~NearestAnchorTagged(id))
    /\ tocv.toc_entries_without_hyperlink = Len(tocv.counted)
    /\ Cardinality({id \in Styled : NearestAnchorTagged(id)})
         + tocv.toc_entries_without_hyperlink = Cardinality(Styled)
    /\ \A id \in DOMAIN tocv.inner :
          id \notin Styled =>
              (tocv.inner[id] = Inner(tocv.nodes[id]) /\ TimesCounted(id) = 0)

\* a TOC of three entries: one with nested anchors, one without an anchor
\* and one without a string
C24_Witness ==
    /\ tocv.pc = "done"
    /\ Len(TocFragmentParagraphs) = 3
    /\ tocv.toc_entries_without_hyperlink = 2
    /\ \E id \in Styled :
          /\ Cardinality(AnchorsOf(id)) = 2
          /\ NearestAnchorTagged(id)
    /\ \E id \in Styled : ~tocv.inner[id].has_string

\* ------------------------------------------------------------------------
\* Properties of the warnings (SpecPage)
\* ------------------------------------------------------------------------

\* a list-item that the ordered-list pass fixed and whose text-indent unit
\* is not "in"
FixedNotInInches(i) ==
    /\ "ordered" \in fixedBy[i]
    /\ TextIndentUnit[OrderedChecks(orig.paras[i]).decl] # "in"

\* the warnings of a conversion: one for the units if any, one for the
\* color:white spans if any
WarningsOwed ==
    (IF \E i \in DOMAIN fixedBy : FixedNotInInches(i) THEN 1 ELSE 0)
    + (IF spans # << >> THEN 1 ELSE 0)

\* C25: a fix_word_html that succeeds returns the warning count passed in,
\* plus 1 if a fixed ordered-list item had a text-indent unit other than
\* "in", plus 1 if a color:white span was found; a step that counts a warning
\* is not the return of the function, and a step that counts a TOC entry
\* without a hyperlink leaves the warning count as it is.
C25_WarningsPerKind ==
    /\ []((pc = "returned" /\ ret.code = 0)
             => ret.warnings = warnIn + WarningsOwed)
    /\ [][num_warning_messages' # num_warning_messages
             => pc' \notin {"returned", "idle"}]_vars
    /\ [][tocv'.toc_entries_without_hyperlink # tocv.toc_entries_without_hyperlink
             => num_warning_messages' = num_warning_messages]_vars

\* a page with a TOC entry without a hyperlink, two ordered-list items in
\* centimetres and a white span: two warnings are added to the one passed in
C25_Witness ==
    /\ pc = "returned"
    /\ ret.code = 0
    /\ warnIn = 1
    /\ ret.warnings = 3
    /\ num_text_indent_unrecognized = 1
    /\ Len(spans) = 1
    /\ tocv.toc_entries_without_hyperlink = 1

\* two list-items in centimetres: one warning
C25_TwoItemsWitness ==
    /\ pc = "returned"
    /\ ret.code = 0
    /\ num_text_indent_unrecognized = 2
    /\ ret.warnings = warnIn + 1

\* ------------------------------------------------------------------------
\* Properties of the policy doNotRemove (SpecWhite)
\* ------------------------------------------------------------------------

\* C26: with the policy doNotRemove, and with no white_colored_text key in
\* the parameter file, a run of the white-text pass leaves the body as it
\* was when the run started, every style attribute of a span included, and
\* returns no error; the spans with color:white are found all the same, and
\* when the run completes each of them is counted.
C26_DoNotRemoveChangesNothing ==
    (config \in {"absent", YML_DO_NOT_REMOVE} /\ whitev.runs >= 1)
    => /\ paras = whitev.body.paras
       /\ loose = whitev.body.loose
       /\ \A n \in DOMAIN spans :
             StyleOf(paras, loose, spans[n])
               = StyleOf(whitev.body.paras, whitev.body.loose, spans[n])
       /\ pc # "returned"
       /\ spans = FindWhiteSpans(whitev.body.paras, whitev.body.loose)
       /\ WhiteRunDone =>
             num_spans_under_paragraph + num_spans_not_under_paragraph = Len(spans)

\* no key in the parameter file: two spans found and counted, both styles kept
C26_Witness ==
    /\ WhiteRunDone
    /\ config = "absent"
    /\ Len(spans) = 2
    /\ num_spans_under_paragraph = 1
    /\ num_spans_not_under_paragraph = 1
    /\ loose = << <<"W", ";", "X">> >>
    /\ paras = <<Para("other", NoStyle, WithSpan(<<"W", ";", "X">>))>>

\* ------------------------------------------------------------------------
\* Properties of the pair fix_word_html returns (SpecConv)
\* ------------------------------------------------------------------------

\* None as the second value of the returned pair: no warning count
PyNone == -2

\* C27: on every error path fix_word_html returns (1, None), and on success
\* it returns (0, num_warning_messages), as its header comment says.
C27_ErrorReturnsNone ==
    pc = "returned" =>
        /\ ret.code \in {0, 1}
        /\ ret.code = 1 => ret.warnings = PyNone
        /\ ret.code = 0 => ret.warnings = num_warning_messages

\* the white-text pass returns its error after the warning about the units
\* was counted: the pair returned is (1, 2), the count passed in being 1
C27_Witness ==
    /\ pc = "returned"
    /\ ret.code = 1
    /\ ~Serialized
    /\ spans # << >>
    /\ warnIn = 1
    /\ ret.warnings = 2

\* ------------------------------------------------------------------------
\* Properties of the counters (SpecConv)
\* ------------------------------------------------------------------------

\* the paragraphs the pass fixed
FixedByPass(name) == Cardinality({i \in DOMAIN fixedBy : name \in fixedBy[i]})

\* C28: in a conversion that starts with all counters at 0 and has
\* serialized the body, the six-nbsp counter is the number of paragraphs
\* fixed by the solid-dot, solid-square, letter-o and ordered-list passes
\* together, and the solid-dot and solid-square counters are the numbers of
\* paragraphs fixed by their own pass.
C28_CountersMatchFixes ==
    (InDecode /\ \A k \in KeySet : startEncoded[k] = 0)
    => /\ numEncoded[FIX_KEY_SIX_NBSPS]
            = FixedByPass("dot") + FixedByPass("square") + FixedByPass("o")
              + FixedByPass("ordered")
       /\ numEncoded[FIX_KEY_SOLID_DOT_BULLET] = FixedByPass("dot")
       /\ numEncoded[FIX_KEY_SOLID_SQUARE_BULLET] = FixedByPass("square")

\* a letter-o item and an ordered-list item, both counted by the six-nbsp
\* counter only
C28_Witness ==
    /\ InDecode
    /\ \A k \in KeySet : startEncoded[k] = 0
    /\ FixedByPass("o") = 1
    /\ FixedByPass("ordered") = 1
    /\ numEncoded[FIX_KEY_SIX_NBSPS] = 2
    /\ numEncoded[FIX_KEY_SOLID_DOT_BULLET] = 0

\* a solid-dot item and a solid-square item of one document
C28_BulletsWitness ==
    /\ InDecode
    /\ FixedByPass("dot") = 1
    /\ FixedByPass("square") = 1
    /\ numEncoded[FIX_KEY_SIX_NBSPS] = 2

\* ------------------------------------------------------------------------
\* Properties of the letter-o descriptor (Spec)
\* ------------------------------------------------------------------------

\* C29: the counter of the letter-o descriptor is 0 in every state of a
\* batch, after every bullet pass and however many letter-o items were
\* fixed, and the script tags are never removed with the empty encode
\* string of that descriptor.
C29_LetterOCounterZero ==
    /\ Encode[FIX_KEY_LETTER_O_BULLET] = ""
    /\ numEncoded[FIX_KEY_LETTER_O_BULLET] = 0
    /\ stripped[FIX_KEY_LETTER_O_BULLET] = NoHtml[FIX_KEY_LETTER_O_BULLET]

\* two letter-o items fixed in one document, and the loop over the
\* descriptors is past the letter-o descriptor
C29_Witness ==
    /\ pc = "decode"
    /\ idx > 3
    /\ FixedByPass("o") = 2
    /\ numEncoded[FIX_KEY_SIX_NBSPS] >= 2

\* ------------------------------------------------------------------------
\* Properties of the candidates that no pass fixes (SpecConv)
\* ------------------------------------------------------------------------

\* the paragraph fails one of the tests of the bullet pass: fewer than two
\* strings, another first string, a first string that is not in a span with
\* a style, no font-family declaration of the pass in that style, a second
\* string that is not alone in a span of spaces, or that span not a child
\* of the symbol's span
FailsABulletCheck(p, pass) ==
    \/ Len(p.strs) < 2
    \/ p.strs[1].txt # pass.symbol
    \/ ~IsStyledSpan(p, p.strs[1].par)
    \/ ~Search(p.els[p.strs[1].par].style, {pass.font})
    \/ ~test_if_span_with_only_spaces(p, p.strs[2].par)
    \/ p.els[p.strs[2].par].par # p.strs[1].par

\* the paragraph fails a test of each of the four passes
FailsEveryPass(p) ==
    /\ \A n \in DOMAIN BulletPasses : FailsABulletCheck(p, BulletPasses[n])
    /\ ~OrderedChecks(p).ok

\* the paragraphs a pass has examined and that pass its tests
Passing(name) ==
    {i \in DOMAIN examined :
        /\ name \in examined[i]
        /\ IF name = "ordered" THEN OrderedChecks(orig.paras[i]).ok
           ELSE \E n \in DOMAIN BulletPasses :
                   /\ BulletPasses[n].name = name
                   /\ ~FailsABulletCheck(orig.paras[i], BulletPasses[n])}

\* C30: a candidate that fails a test of each of the four passes is, while
\* the list passes run and when they have ended, what it was when the engine
\* started (class, style, elements, strings), and no pass has fixed it; the
\* counts of a running bullet pass and, after the bullet passes, the
\* counters of the descriptors and the counts of the ordered-list pass count
\* only paragraphs that passed the tests of a pass, so none is incremented
\* for such a candidate.
C30_FailingCandidateUntouched ==
    /\ \A i \in DOMAIN paras :
          (IsCandidate(orig.paras[i]) /\ FailsEveryPass(orig.paras[i]))
          => /\ fixedBy[i] = {}
             /\ InListPasses => paras[i] = orig.paras[i]
             /\ paras[i].strs = orig.paras[i].strs
             /\ paras[i].style = orig.paras[i].style
             /\ Len(paras[i].els) = Len(orig.paras[i].els)
    /\ pc = "bullet" =>
          /\ bullets_fixed_count = Cardinality(Passing(BulletPasses[passNo].name))
          /\ symbol_replace_count \in {0, bullets_fixed_count}
    /\ pc \notin {"idle", "bullet"} =>
          /\ numEncoded[FIX_KEY_SIX_NBSPS] - startEncoded[FIX_KEY_SIX_NBSPS]
               = Cardinality(Passing("dot")) + Cardinality(Passing("square"))
                 + Cardinality(Passing("o")) + Cardinality(Passing("ordered"))
          /\ numEncoded[FIX_KEY_SOLID_DOT_BULLET] = Cardinality(Passing("dot"))
          /\ numEncoded[FIX_KEY_SOLID_SQUARE_BULLET] = Cardinality(Passing("square"))
          /\ numEncoded[FIX_KEY_LETTER_O_BULLET] = 0
          /\ num_list_items_fixed <= Cardinality(Passing("ordered"))
          /\ num_text_indent_unrecognized <= Cardinality(Passing("ordered"))

\* a solid-dot symbol in the Wingdings font: the four passes have examined
\* the candidate and left it, and have fixed the other paragraph
C30_Witness ==
    /\ pc = "white"
    /\ idx = 1
    /\ \E i, j \in DOMAIN paras :
          /\ orig.paras[i] = Para("list", ListStyle, BulletItem("Fwing", "dot"))
          /\ examined[i] = {"dot", "square", "o", "ordered"}
          /\ paras[i] = orig.paras[i]
          /\ fixedBy[j] = {"square"}
          /\ numEncoded[FIX_KEY_SIX_NBSPS] = 1

====
